---- MODULE Spec2Model ----
(***************************************************************************)
(* Model of the instance-derivation engine of ayon-traypublisher.          *)
(*                                                                         *)
(* Part 1 : Python strings and values (strings are sequences of            *)
(*          one-character strings, so that lower(), replace(), split(),    *)
(*          join(), int(), float(), str() and re.match() are computed).    *)
(* Part 2 : _get_row_value_with_validation and the column schema.          *)
(* Part 3 : the CSV ingestion (IngestCSV.create) as a state machine.       *)
(***************************************************************************)
EXTENDS Integers, Sequences, FiniteSets, TLC

(***************************************************************************)
(* Part 1a : characters and strings                                        *)
(***************************************************************************)

LowerAlpha == <<"a","b","c","d","e","f","g","h","i","j","k","l","m",
                "n","o","p","q","r","s","t","u","v","w","x","y","z">>

UpperAlpha == <<"A","B","C","D","E","F","G","H","I","J","K","L","M",
                "N","O","P","Q","R","S","T","U","V","W","X","Y","Z">>

DigitChars == <<"0","1","2","3","4","5","6","7","8","9">>

Range(f) == {f[i] : i \in DOMAIN f}

IsDigit(c) == c \in Range(DigitChars)

DigitVal(c) == (CHOOSE i \in 1..10 : DigitChars[i] = c) - 1

\* str.isspace() of one character (ASCII whitespace)
IsSpace(c) == c \in {" ", "\t", "\n", "\r"}

\* str.lower() of one character
lower_char(c) ==
    IF \E i \in 1..26 : UpperAlpha[i] = c
    THEN LowerAlpha[CHOOSE i \in 1..26 : UpperAlpha[i] = c]
    ELSE c

\* str.upper() of one character
upper_char(c) ==
    IF \E i \in 1..26 : LowerAlpha[i] = c
    THEN UpperAlpha[CHOOSE i \in 1..26 : LowerAlpha[i] = c]
    ELSE c

\* s.lower()
lower(s) == [i \in 1..Len(s) |-> lower_char(s[i])]

\* s.replace(c, "") for a one-character c
remove_char(s, c) == SelectSeq(s, LAMBDA x : x # c)

\* s[i:] with a 1-based first index
Drop(s, i) == SubSeq(s, i, Len(s))

\* s[:n]
Take(s, n) == SubSeq(s, 1, n)

\* s.startswith(p)
startswith(s, p) == Len(p) <= Len(s) /\ Take(s, Len(p)) = p

\* c in s
contains(s, c) == \E i \in 1..Len(s) : s[i] = c

\* s.find(c) + 1 (0 when absent), s.rfind(c) + 1 (0 when absent)
find(s, c) == IF contains(s, c)
              THEN CHOOSE i \in 1..Len(s) : s[i] = c /\ \A j \in 1..(i - 1) : s[j] # c
              ELSE 0

rfind(s, c) == IF contains(s, c)
               THEN CHOOSE i \in 1..Len(s) : s[i] = c /\ \A j \in (i + 1)..Len(s) : s[j] # c
               ELSE 0

RECURSIVE lstrip_set(_, _)
\* s.lstrip(chars)
lstrip_set(s, cs) ==
    IF s # <<>> /\ Head(s) \in cs THEN lstrip_set(Tail(s), cs) ELSE s

RECURSIVE rstrip_set(_, _)
\* s.rstrip(chars)
rstrip_set(s, cs) ==
    IF s # <<>> /\ s[Len(s)] \in cs THEN rstrip_set(Take(s, Len(s) - 1), cs) ELSE s

Whitespace == {" ", "\t", "\n", "\r"}

\* s.strip()
strip(s) == rstrip_set(lstrip_set(s, Whitespace), Whitespace)

RECURSIVE split(_, _)
\* s.split(c) for a one-character separator c: always at least one piece
split(s, c) ==
    IF ~contains(s, c) THEN <<s>>
    ELSE <<Take(s, find(s, c) - 1)>> \o split(Drop(s, find(s, c) + 1), c)

RECURSIVE split_ws(_)
\* s.split() / s.rsplit() without arguments: the whitespace-separated words
split_ws(s) ==
    LET t == lstrip_set(s, Whitespace)
        n == IF \E i \in 1..Len(t) : IsSpace(t[i])
             THEN (CHOOSE i \in 1..Len(t) :
                      IsSpace(t[i]) /\ \A j \in 1..(i - 1) : ~IsSpace(t[j])) - 1
             ELSE Len(t)
    IN IF t = <<>> THEN <<>>
       ELSE <<Take(t, n)>> \o split_ws(Drop(t, n + 1))

RECURSIVE join(_, _)
\* sep.join(parts)
join(sep, parts) ==
    IF parts = <<>> THEN <<>>
    ELSE IF Len(parts) = 1 THEN parts[1]
    ELSE parts[1] \o sep \o join(sep, Tail(parts))

\* s.rsplit(c, 1)
rsplit1(s, c) ==
    IF ~contains(s, c) THEN <<s>>
    ELSE <<Take(s, rfind(s, c) - 1), Drop(s, rfind(s, c) + 1)>>

RECURSIVE nat_str(_)
\* str(n) for a natural number n
nat_str(n) ==
    IF n < 10 THEN <<DigitChars[n + 1]>>
    ELSE nat_str(n \div 10) \o <<DigitChars[(n % 10) + 1]>>

\* str(n) for an int n
int_str(n) == IF n < 0 THEN <<"-">> \o nat_str(0 - n) ELSE nat_str(n)

RECURSIVE digits_val(_)
\* the value of a non-empty string of decimal digits
digits_val(s) ==
    IF s = <<>> THEN 0
    ELSE 10 * digits_val(Take(s, Len(s) - 1)) + DigitVal(s[Len(s)])

RECURSIVE zfill(_, _)
\* right-aligned, zero-padded to width w (format spec ">03")
zfill(s, w) == IF Len(s) >= w THEN s ELSE zfill(<<"0">> \o s, w)

(***************************************************************************)
(* Part 1b : os.path (posixpath)                                           *)
(***************************************************************************)

\* os.path.split(p)
path_split(p) ==
    LET i    == rfind(p, "/")
        head == Take(p, i)
        tail == Drop(p, i + 1)
    IN <<IF head # <<>> /\ \E j \in 1..Len(head) : head[j] # "/"
         THEN rstrip_set(head, {"/"}) ELSE head,
         tail>>

\* os.path.join(a, b)
path_join(a, b) ==
    IF startswith(b, <<"/">>) THEN b
    ELSE IF a = <<>> \/ a[Len(a)] = "/" THEN a \o b
    ELSE a \o <<"/">> \o b

\* os.path.basename(p), os.path.dirname(p)
basename(p) == path_split(p)[2]

dirname(p) == path_split(p)[1]

\* os.path.splitext(p): the extension starts at the last dot of the last
\* component, unless that dot leads the component
splitext(p) ==
    LET sep == rfind(p, "/")
        dot == rfind(p, ".")
    IN IF dot > sep /\ \E j \in (sep + 1)..(dot - 1) : p[j] # "."
       THEN <<Take(p, dot - 1), Drop(p, dot)>>
       ELSE <<p, <<>>>>

(***************************************************************************)
(* Part 1c : Python values.  A value is [k |-> kind, v |-> payload]:       *)
(*   None, str (a character sequence), int, bool, and float.  A float is   *)
(*   kept as sign, integer part and fraction digits without trailing       *)
(*   zeros, which is what repr() prints for the short decimal literals     *)
(*   the cells of a CSV hold (no exponent form, no inf/nan).               *)
(***************************************************************************)

None == [k |-> "none", v |-> <<>>]

PyStr(s) == [k |-> "str", v |-> s]

PyInt(n) == [k |-> "int", v |-> n]

PyBool(b) == [k |-> "bool", v |-> b]

PyFloat(neg, ip, fr) == [k |-> "float", v |-> [neg |-> neg, ip |-> ip, fr |-> fr]]

\* The result of a call: err = "" when it returned val, else the exception.
Ok(val) == [err |-> "", val |-> val, msg |-> <<>>]

Raise(err) == [err |-> err, val |-> None, msg |-> <<>>]

\* bool(x): Python truthiness
truthy(x) ==
    CASE x.k = "none"  -> FALSE
      [] x.k = "str"   -> x.v # <<>>
      [] x.k = "int"   -> x.v # 0
      [] x.k = "bool"  -> x.v
      [] x.k = "float" -> x.v.ip # 0 \/ x.v.fr # <<>>
      [] x.k = "list"  -> x.v # <<>>
      [] x.k = "dict"  -> DOMAIN x.v # {}

\* str(x)
py_str(x) ==
    CASE x.k = "none"  -> <<"N","o","n","e">>
      [] x.k = "str"   -> x.v
      [] x.k = "int"   -> int_str(x.v)
      [] x.k = "bool"  -> IF x.v THEN <<"T","r","u","e">> ELSE <<"F","a","l","s","e">>
      [] x.k = "float" -> (IF x.v.neg THEN <<"-">> ELSE <<>>) \o nat_str(x.v.ip)
                          \o <<".">> \o (IF x.v.fr = <<>> THEN <<"0">> ELSE x.v.fr)

\* A digit group of a numeric literal: digits, single underscores between them
digit_group(s) ==
    /\ s # <<>>
    /\ \A i \in 1..Len(s) : IsDigit(s[i]) \/ s[i] = "_"
    /\ s[1] # "_" /\ s[Len(s)] # "_"
    /\ \A i \in 1..(Len(s) - 1) : ~(s[i] = "_" /\ s[i + 1] = "_")

\* int(x)
py_int(x) ==
    CASE x.k = "none"  -> Raise("TypeError")
      [] x.k = "int"   -> Ok(x)
      [] x.k = "bool"  -> Ok(PyInt(IF x.v THEN 1 ELSE 0))
      [] x.k = "float" -> Ok(PyInt(IF x.v.neg THEN 0 - x.v.ip ELSE x.v.ip))
      [] x.k = "str"   ->
            LET t    == strip(x.v)
                neg  == t # <<>> /\ t[1] = "-"
                body == IF t # <<>> /\ t[1] \in {"+", "-"} THEN Tail(t) ELSE t
            IN IF digit_group(body)
               THEN Ok(PyInt(IF neg THEN 0 - digits_val(remove_char(body, "_"))
                             ELSE digits_val(remove_char(body, "_"))))
               ELSE Raise("ValueError")

\* float(x); a literal is [sign] digits [ "." digits ] with a digit somewhere
py_float(x) ==
    CASE x.k = "none"  -> Raise("TypeError")
      [] x.k = "float" -> Ok(x)
      [] x.k = "int"   -> Ok(PyFloat(x.v < 0, IF x.v < 0 THEN 0 - x.v ELSE x.v, <<>>))
      [] x.k = "bool"  -> Ok(PyFloat(FALSE, IF x.v THEN 1 ELSE 0, <<>>))
      [] x.k = "str"   ->
            LET t    == strip(x.v)
                neg  == t # <<>> /\ t[1] = "-"
                body == IF t # <<>> /\ t[1] \in {"+", "-"} THEN Tail(t) ELSE t
                dot  == find(body, ".")
                ipt  == IF dot = 0 THEN body ELSE Take(body, dot - 1)
                frt  == IF dot = 0 THEN <<>> ELSE Drop(body, dot + 1)
            IN IF /\ (ipt = <<>> \/ digit_group(ipt))
                  /\ (frt = <<>> \/ digit_group(frt))
                  /\ (ipt # <<>> \/ frt # <<>>)
               THEN Ok(PyFloat(neg, digits_val(remove_char(ipt, "_")),
                               rstrip_set(remove_char(frt, "_"), {"0"})))
               ELSE Raise("ValueError")

(***************************************************************************)
(* Part 1d : regular expressions.  A pattern is a tree of nodes            *)
(*   [op, cs, sub, lo, hi]; re_ends(r, s, i) is the set of positions at    *)
(*   which a match of r that starts at position i of s can end, so         *)
(*   re.match(r, s) succeeds iff re_ends(r, s, 1) is not empty.            *)
(***************************************************************************)

R_set(cs) == [op |-> "set", cs |-> cs, sub |-> <<>>, lo |-> 0, hi |-> 0]

R_any == [op |-> "any", cs |-> {}, sub |-> <<>>, lo |-> 0, hi |-> 0]

R_bol == [op |-> "bol", cs |-> {}, sub |-> <<>>, lo |-> 0, hi |-> 0]

R_eol == [op |-> "eol", cs |-> {}, sub |-> <<>>, lo |-> 0, hi |-> 0]

R_seq(subs) == [op |-> "seq", cs |-> {}, sub |-> subs, lo |-> 0, hi |-> 0]

R_alt(subs) == [op |-> "alt", cs |-> {}, sub |-> subs, lo |-> 0, hi |-> 0]

\* r{lo,hi}; hi = -1 is "no upper limit"
R_rep(r, lo, hi) == [op |-> "rep", cs |-> {}, sub |-> <<r>>, lo |-> lo, hi |-> hi]

R_star(r) == R_rep(r, 0, -1)

R_plus(r) == R_rep(r, 1, -1)

R_opt(r) == R_rep(r, 0, 1)

\* a literal word
R_word(w) == R_seq([i \in 1..Len(w) |-> R_set({w[i]})])

R_digit == R_set(Range(DigitChars))

RECURSIVE re_ends(_, _, _)
RECURSIVE re_seq_ends(_, _, _)
RECURSIVE re_rep_ends(_, _, _, _, _, _)

re_ends(r, s, i) ==
    CASE r.op = "set" -> IF i <= Len(s) /\ s[i] \in r.cs THEN {i + 1} ELSE {}
      [] r.op = "any" -> IF i <= Len(s) /\ s[i] # "\n" THEN {i + 1} ELSE {}
      [] r.op = "bol" -> IF i = 1 THEN {i} ELSE {}
      [] r.op = "eol" -> IF i = Len(s) + 1 \/ (i = Len(s) /\ s[i] = "\n")
                         THEN {i} ELSE {}
      [] r.op = "seq" -> re_seq_ends(r.sub, s, {i})
      [] r.op = "alt" -> UNION {re_ends(r.sub[n], s, i) : n \in 1..Len(r.sub)}
      [] r.op = "rep" -> re_rep_ends(r.sub[1], s, {i}, 0, r.lo, r.hi)

re_seq_ends(subs, s, I) ==
    IF subs = <<>> THEN I
    ELSE re_seq_ends(Tail(subs), s, UNION {re_ends(Head(subs), s, i) : i \in I})

\* I: the positions reached after exactly n repetitions
re_rep_ends(r, s, I, n, lo, hi) ==
    IF I = {} THEN {}
    ELSE (IF n >= lo THEN I ELSE {})
         \cup (IF (hi >= 0 /\ n >= hi) \/ n >= lo + Len(s) + 1 THEN {}
               ELSE re_rep_ends(r, s, UNION {re_ends(r, s, i) : i \in I},
                                n + 1, lo, hi))

\* re.match(pattern, s) is not None
re_match(r, s) == re_ends(r, s, 1) # {}

(***************************************************************************)
(* Part 2 : the column schema (server settings, DEFAULT_CREATORS) and      *)
(*          _get_row_value_with_validation                                 *)
(***************************************************************************)

Letters == Range(LowerAlpha) \cup Range(UpperAlpha)

\* "^(.*)$"
PAT_ANYTHING == R_seq(<<R_bol, R_star(R_any), R_eol>>)

\* "^([a-zA-Z\:\ 0-9#\-\._\\/]*)$"
PAT_FILE_PATH ==
    R_seq(<<R_bol,
            R_star(R_set(Letters \cup Range(DigitChars)
                         \cup {":", " ", "#", "-", ".", "_", "\\", "/"})),
            R_eol>>)

\* "^([a-zA-Z0-9_\/]*)$"
PAT_FOLDER_PATH ==
    R_seq(<<R_bol, R_star(R_set(Letters \cup Range(DigitChars) \cup {"_", "/"})),
            R_eol>>)

\* "^(\d{1,3})$"
PAT_DIGITS_1_3 == R_seq(<<R_bol, R_rep(R_digit, 1, 3), R_eol>>)

\* "^(\d{1,8})$"
PAT_DIGITS_1_8 == R_seq(<<R_bol, R_rep(R_digit, 1, 8), R_eol>>)

\* "^(\d)$"
PAT_DIGIT == R_seq(<<R_bol, R_digit, R_eol>>)

\* "^(\d*)$"
PAT_DIGITS_STAR == R_seq(<<R_bol, R_star(R_digit), R_eol>>)

\* "^[0-9]*\.[0-9]+$|^[0-9]+$"
PAT_FPS ==
    R_alt(<<R_seq(<<R_bol, R_star(R_digit), R_set({"."}), R_plus(R_digit), R_eol>>),
            R_seq(<<R_bol, R_plus(R_digit), R_eol>>)>>)

\* "(True|False)"
PAT_TRUE_FALSE == R_alt(<<R_word(<<"T","r","u","e">>), R_word(<<"F","a","l","s","e">>)>>)

\* "^(\d*.?\d*)$"
PAT_ASPECT ==
    R_seq(<<R_bol, R_star(R_digit), R_opt(R_any), R_star(R_digit), R_eol>>)

\* The names of the columns the creator reads
COL_FILE_PATH == <<"F","i","l","e"," ","P","a","t","h">>

COL_FOLDER_PATH == <<"F","o","l","d","e","r"," ","P","a","t","h">>

COL_TASK_NAME == <<"T","a","s","k"," ","N","a","m","e">>

COL_PRODUCT_TYPE == <<"P","r","o","d","u","c","t"," ","T","y","p","e">>

COL_VARIANT == <<"V","a","r","i","a","n","t">>

COL_VERSION == <<"V","e","r","s","i","o","n">>

COL_VERSION_COMMENT == <<"V","e","r","s","i","o","n"," ","C","o","m","m","e","n","t">>

COL_VERSION_THUMBNAIL == <<"V","e","r","s","i","o","n"," ","T","h","u","m","b","n","a","i","l">>

COL_FRAME_START == <<"F","r","a","m","e"," ","S","t","a","r","t">>

COL_FRAME_END == <<"F","r","a","m","e"," ","E","n","d">>

COL_HANDLE_START == <<"H","a","n","d","l","e"," ","S","t","a","r","t">>

COL_HANDLE_END == <<"H","a","n","d","l","e"," ","E","n","d">>

COL_FPS == <<"F","P","S">>

COL_SLATE_EXISTS == <<"S","l","a","t","e"," ","E","x","i","s","t","s">>

COL_REPRESENTATION == <<"R","e","p","r","e","s","e","n","t","a","t","i","o","n">>

COL_REPRESENTATION_COLORSPACE == <<"R","e","p","r","e","s","e","n","t","a","t","i","o","n"," ","C","o","l","o","r","s","p","a","c","e">>

COL_REPRESENTATION_TAGS == <<"R","e","p","r","e","s","e","n","t","a","t","i","o","n"," ","T","a","g","s">>

COL_SHOT_HEIGHT == <<"S","h","o","t"," ","H","e","i","g","h","t">>

COL_SHOT_WIDTH == <<"S","h","o","t"," ","W","i","d","t","h">>

COL_SHOT_PIXEL_ASPECT == <<"S","h","o","t"," ","P","i","x","e","l"," ","A","s","p","e","c","t">>

Column(name, type, default, required_column, validation_pattern) ==
    [name |-> name, type |-> type, default |-> default,
     required_column |-> required_column,
     validation_pattern |-> validation_pattern]

\* DEFAULT_CREATORS["IngestCSV"]["columns_config"]["columns"]
DEFAULT_COLUMNS == <<
    Column(COL_FILE_PATH, "text", PyStr(<<>>), TRUE, PAT_FILE_PATH),
    Column(COL_FOLDER_PATH, "text", PyStr(<<>>), TRUE, PAT_FOLDER_PATH),
    Column(COL_TASK_NAME, "text", PyStr(<<>>), TRUE, PAT_ANYTHING),
    Column(COL_PRODUCT_TYPE, "text", PyStr(<<>>), FALSE, PAT_ANYTHING),
    Column(COL_VARIANT, "text", PyStr(<<>>), FALSE, PAT_ANYTHING),
    Column(COL_VERSION, "number", PyStr(<<"0">>), FALSE, PAT_DIGITS_1_3),
    Column(COL_VERSION_COMMENT, "text", PyStr(<<>>), FALSE, PAT_ANYTHING),
    Column(COL_VERSION_THUMBNAIL, "text", PyStr(<<>>), FALSE, PAT_FILE_PATH),
    Column(COL_FRAME_START, "number", PyStr(<<"0">>), TRUE, PAT_DIGITS_1_8),
    Column(COL_FRAME_END, "number", PyStr(<<"0">>), TRUE, PAT_DIGITS_1_8),
    Column(COL_HANDLE_START, "number", PyStr(<<"0">>), TRUE, PAT_DIGIT),
    Column(COL_HANDLE_END, "number", PyStr(<<"0">>), TRUE, PAT_DIGIT),
    Column(COL_FPS, "decimal", PyStr(<<"0",".","0">>), TRUE, PAT_FPS),
    Column(COL_SLATE_EXISTS, "bool", PyStr(<<"T","r","u","e">>), FALSE, PAT_TRUE_FALSE),
    Column(COL_REPRESENTATION, "text", PyStr(<<>>), FALSE, PAT_ANYTHING),
    Column(COL_REPRESENTATION_COLORSPACE, "text", PyStr(<<>>), FALSE, PAT_ANYTHING),
    Column(COL_REPRESENTATION_TAGS, "text", PyStr(<<>>), FALSE, PAT_ANYTHING),
    Column(COL_SHOT_HEIGHT, "number", PyStr(<<"0">>), FALSE, PAT_DIGITS_STAR),
    Column(COL_SHOT_WIDTH, "number", PyStr(<<"0">>), FALSE, PAT_DIGITS_STAR),
    Column(COL_SHOT_PIXEL_ASPECT, "decimal", PyStr(<<"0">>), FALSE, PAT_ASPECT) >>

\* dict.get(key): None when the key is absent
dict_get(d, key) == IF key \in DOMAIN d THEN d[key] ELSE None

\* column_default in (0, '0')
is_zero_default(d) ==
    \/ d = PyStr(<<"0">>)
    \/ d = PyInt(0)
    \/ d = PyBool(FALSE)
    \/ (d.k = "float" /\ d.v.ip = 0 /\ d.v.fr = <<>>)

\* column_value in ["true", "True"]
is_true_word(x) == x \in {PyStr(<<"t","r","u","e">>), PyStr(<<"T","r","u","e">>)}

\* coerce_value if a bool cell were true whenever it is not empty
coerce_value_TruthyBool(column_type, column_value) ==
    IF column_type = "number" /\ column_value # None THEN py_int(column_value)
    ELSE IF column_type = "decimal" /\ column_value # None THEN py_float(column_value)
    ELSE IF column_type = "bool" THEN Ok(PyBool(truthy(column_value)))
    ELSE Ok(column_value)

\* the coercion step of _get_row_value_with_validation
coerce_value(column_type, column_value) ==
    IF column_type = "number" /\ column_value # None THEN py_int(column_value)
    ELSE IF column_type = "decimal" /\ column_value # None THEN py_float(column_value)
    ELSE IF column_type = "bool" THEN Ok(PyBool(is_true_word(column_value)))
    ELSE Ok(column_value)

\* effective_default if a default of "0" counted as a default
effective_default_KeepsZero(column_data) == column_data.default

\* the default that replaces an empty cell
effective_default(column_data) ==
    IF column_data.type \in {"number", "decimal"} /\ is_zero_default(column_data.default)
    THEN None
    ELSE column_data.default

\* the CreatorError of a value that does not match the pattern
validation_error(column_name, column_value, column_data, row_data) ==
    [err |-> "CreatorError: value does not match validation regex",
     val |-> None,
     msg |-> [column |-> column_name, value |-> py_str(column_value),
              pattern |-> column_data.validation_pattern,
              row_data |-> row_data, column_data |-> column_data]]

\* validate_value if the whole value had to match the pattern
validate_value_FullMatch(column_name, column_value, column_data, row_data) ==
    IF column_value # None
       /\ ~re_match(R_seq(<<column_data.validation_pattern, R_eol>>),
                    py_str(column_value))
    THEN validation_error(column_name, column_value, column_data, row_data)
    ELSE Ok(column_value)

\* the check of the coerced value against the validation pattern
validate_value(column_name, column_value, column_data, row_data) ==
    IF column_value # None
       /\ ~re_match(column_data.validation_pattern, py_str(column_value))
    THEN validation_error(column_name, column_value, column_data, row_data)
    ELSE Ok(column_value)

\* required_value_missing if no cell were ever refused as empty
required_value_missing_Never(column_value, column_data) == FALSE

\* whether an empty-string cell of this column is refused
required_value_missing(column_value, column_data) ==
    column_value = PyStr(<<>>) /\ column_data.required_column

\* Lines 33-37: the first column of the schema with the name
find_column(columns_config, column_name) ==
    columns_config.columns[
        CHOOSE i \in 1..Len(columns_config.columns) :
            /\ columns_config.columns[i].name = column_name
            /\ \A j \in 1..(i - 1) : columns_config.columns[j].name # column_name]

\* Lines 61-67: the cell, or the default in place of an empty cell
value_or_default(column_value, column_data) ==
    IF column_value = PyStr(<<>>) THEN effective_default(column_data)
    ELSE column_value

\* Lines 69-89 once the value has been coerced: a failed int() or float()
\* leaves the function as it is, any other value is validated
validate_coerced(column_name, coerced, column_data, row_data) ==
    IF coerced.err # "" THEN coerced
    ELSE validate_value(column_name, coerced.val, column_data, row_data)

\* Lines 44-89: the value of the cell of a column found in the schema
row_value_of_column(column_name, column_data, column_value, row_data) ==
    IF required_value_missing(column_value, column_data)
    THEN Raise("CreatorError: value is required")
    ELSE validate_coerced(column_name,
                          coerce_value(column_data.type,
                                       value_or_default(column_value, column_data)),
                          column_data, row_data)

get_row_value_with_validation(columns_config, column_name, row_data) ==
    IF \A i \in 1..Len(columns_config.columns) :
          columns_config.columns[i].name # column_name
    THEN Raise("CreatorError: column not found in column config")
    ELSE row_value_of_column(column_name, find_column(columns_config, column_name),
                             dict_get(row_data, column_name), row_data)

(***************************************************************************)
(* Part 3a : the world of one CSV ingestion: settings, asset database,     *)
(*           file system, and the framework calls the creator makes        *)
(***************************************************************************)

\* DEFAULT_CREATORS["IngestCSV"]["representations_config"]
representations_config ==
    [tags_delimiter |-> ";",
     default_tags |-> << <<"r","e","v","i","e","w">> >>,
     representations |-> <<
        [name |-> <<"p","r","e","v","i","e","w">>, extensions |-> << <<".","m","p","4">>, <<".","m","o","v">> >>],
        [name |-> <<"e","x","r">>, extensions |-> << <<".","e","x","r">> >>],
        [name |-> <<"e","d","i","t">>, extensions |-> << <<".","m","o","v">> >>],
        [name |-> <<"r","e","v","i","e","w">>, extensions |-> << <<".","m","o","v">> >>],
        [name |-> <<"n","u","k","e">>, extensions |-> << <<".","n","k">> >> ] >>]

\* "(sh.*)" and "(seq.*)"
PAT_SH == R_seq(<<R_word(<<"s","h">>), R_star(R_any)>>)

PAT_SEQ == R_seq(<<R_word(<<"s","e","q">>), R_star(R_any)>>)

\* DEFAULT_CREATORS["IngestCSV"]["folder_creation_config"], "enabled" aside
folder_creation_defaults ==
    [folder_type_regexes |-> << [regex |-> PAT_SH, folder_type |-> "Shot"],
                                [regex |-> PAT_SEQ, folder_type |-> "Sequence"] >>,
     folder_create_type |-> "Folder",
     task_type_regexes |-> <<>>,
     task_create_type |-> "Generic"]

\* ayon_core.lib.transcoding: the extensions the modelled files can have
VIDEO_EXTENSIONS == { <<".","m","o","v">>, <<".","m","p","4">> }

IMAGE_EXTENSIONS == { <<".","e","x","r">>, <<".","j","p","g">> }

\* The asset database of the project: folders /seq, /seq/sh1 and /shows,
\* and the task "comp" of /seq/sh1.
DB_FOLDERS ==
    { [path |-> <<"/","s","e","q">>, id |-> "folder-seq", folderType |-> "Sequence"],
      [path |-> <<"/","s","e","q","/","s","h","1">>, id |-> "folder-sh1", folderType |-> "Shot"],
      [path |-> <<"/","s","h","o","w","s">>, id |-> "folder-shows", folderType |-> "Episode"] }

DB_TASKS ==
    { [folderId |-> "folder-sh1", name |-> <<"c","o","m","p">>, taskType |-> <<"C","o","m","p","o","s","i","t","i","n","g">>] }

\* ayon_api.get_folders(project_name, folder_paths=...)
get_folders(folder_paths) == {f \in DB_FOLDERS : f.path \in folder_paths}

\* ayon_api.get_tasks(project_name, folder_ids=..., task_names=...)
get_tasks(folder_ids, task_names) ==
    {t \in DB_TASKS : t.folderId \in folder_ids /\ t.name \in task_names}

\* The file system: the directory of the CSV file and what it holds.  The
\* process runs in a directory that has no sub-directories of its own.
CSV_DIR == <<"/","c","s","v">>

CSV_FILENAME == <<"i","n",".","c","s","v">>

FS_DIRS == { <<"/">>, <<"/","c","s","v">>, <<"/","c","s","v","/","s","u","b">> }

\* os.path.exists(p) / os.path.isdir(p) for a directory path
path_exists(p) == p \in FS_DIRS

\* os.listdir(p)
listdir(p) ==
    IF p = CSV_DIR
    THEN { <<"i","n",".","c","s","v">>, <<"a",".","m","o","v">>, <<"b",".","m","o","v">>, <<"t",".","j","p","g">>, <<"s",".","1","0","0","1",".","e","x","r">>, <<"s",".","1","0","0","2",".","e","x","r">>, <<"s",".","1","0","0","3",".","e","x","r">>, <<"s","u","b">> }
    ELSE IF p = <<"/","c","s","v","/","s","u","b">> THEN { <<"a",".","m","o","v">> }
    ELSE {}

\* clique.assemble(files)[0]: the collections of the listed files.  The one
\* numbered run of the modelled directory is s.1001.exr .. s.1003.exr.
clique_assemble(files) ==
    LET members == { <<"s",".","1","0","0","1",".","e","x","r">>, <<"s",".","1","0","0","2",".","e","x","r">>, <<"s",".","1","0","0","3",".","e","x","r">> } \cap files
    IN IF Cardinality(members) >= 2
       THEN << [head |-> <<"s",".">>, tail |-> <<".","e","x","r">>,
                indexes |-> {digits_val(SubSeq(m, 3, 6)) : m \in members}] >>
       ELSE <<>>

\* list(col): the file names of a collection in index order
RECURSIVE collection_files(_, _)
collection_files(col, indexes) ==
    IF indexes = {} THEN <<>>
    ELSE LET lo == CHOOSE i \in indexes : \A j \in indexes : i <= j
         IN <<col.head \o zfill(nat_str(lo), 4) \o col.tail>>
            \o collection_files(col, indexes \ {lo})

\* ayon_core get_product_name with the default product name template
\* "{product[type]}{variant}"; an empty product type gives ""
get_product_name(task_name, task_type, product_type, variant) ==
    IF ~truthy(product_type) THEN <<>>
    ELSE py_str(product_type) \o py_str(variant)

\* What CreateContext.create hands to IngestCSV.create: the product name of
\* the CSV-file instance and the context of the instance data
CSV_PRODUCT_NAME == <<"c","s","v","_","i","n","g","e","s","t","_","f","i","l","e","M","a","i","n">>

CSV_INSTANCE_DATA ==
    [folderPath |-> PyStr(<<"/","s","e","q","/","s","h","1">>),
     task |-> PyStr(<<"c","o","m","p">>),
     variant |-> PyStr(<<"M","a","i","n">>)]

\* a dict without keys
EmptyDict == [key \in {} |-> None]

\* dict.update: the keys of b win
dict_update(a, b) ==
    [key \in (DOMAIN a) \cup (DOMAIN b) |-> IF key \in DOMAIN b THEN b[key] ELSE a[key]]

\* the least element of a non-empty set of integers
Min(S) == CHOOSE i \in S : \A j \in S : i <= j

Max(S) == CHOOSE i \in S : \A j \in S : i >= j

(***************************************************************************)
(* Part 3b : rows of the CSV file, RepreItem and ProductItem               *)
(***************************************************************************)

\* " ".join(column.rsplit()): the header name without stray whitespace
fix_fieldname(column) == join(<<" ">>, split_ws(column))

\* One row of csv.DictReader: dict(zip(fieldnames, cells)); of two columns
\* with the same name the later one wins.
dict_row(fieldnames, cells) ==
    [name \in Range(fieldnames) |->
        PyStr(cells[Max({i \in 1..Len(fieldnames) : fieldnames[i] = name})])]

\* The first failed call of a sequence of call results, in call order
first_error(results) ==
    LET bad == {i \in 1..Len(results) : results[i].err # ""}
    IN IF bad = {} THEN Ok(None) ELSE results[Min(bad)]

\* The tags of a representation row: the default tags unless the cell has
\* a value; a cell with the delimiter is split, stripped and lowercased,
\* a cell without it is taken as it is.
repre_tags_list(repre_config, repre_tags) ==
    IF truthy(repre_tags)
    THEN IF contains(repre_tags.v, repre_config.tags_delimiter)
         THEN LET tags == split(repre_tags.v, repre_config.tags_delimiter)
              IN [i \in 1..Len(tags) |-> lower(strip(tags[i]))]
         ELSE <<repre_tags.v>>
    ELSE repre_config.default_tags

\* The values of the named columns of a row, in the order of the names
row_values(columns_config, column_names, row) ==
    [i \in 1..Len(column_names) |->
        get_row_value_with_validation(columns_config, column_names[i], row)]

\* The columns RepreItem.from_csv_row reads, in its order: filepath,
\* frame_start, frame_end, handle_start, handle_end, fps, thumbnail_path,
\* colorspace, comment, name, slate_exists, repre_tags
REPRE_COLUMNS ==
    <<COL_FILE_PATH, COL_FRAME_START, COL_FRAME_END, COL_HANDLE_START,
      COL_HANDLE_END, COL_FPS, COL_VERSION_THUMBNAIL,
      COL_REPRESENTATION_COLORSPACE, COL_VERSION_COMMENT, COL_REPRESENTATION,
      COL_SLATE_EXISTS, COL_REPRESENTATION_TAGS>>

\* Lines 148-151: int() of the four frame values and float() of the fps
repre_casts(read) ==
    [i \in 1..5 |-> IF i <= 4 THEN py_int(read[i + 1].val) ELSE py_float(read[6].val)]

\* Lines 153-167: the item of the values read and cast
make_repre_item(read, casts, repre_config, line_num) ==
    IF first_error(casts).err # "" THEN first_error(casts)
    ELSE Ok([name           |-> read[10].val,
             filepath       |-> read[1].val,
             frame_start    |-> casts[1].val,
             frame_end      |-> casts[2].val,
             handle_start   |-> casts[3].val,
             handle_end     |-> casts[4].val,
             fps            |-> casts[5].val,
             thumbnail_path |-> read[7].val,
             colorspace     |-> read[8].val,
             comment        |-> read[9].val,
             slate_exists   |-> read[11].val,
             tags           |-> repre_tags_list(repre_config, read[12].val),
             line_num       |-> line_num])

\* Lines 123-167 once the columns have been read
repre_item_of_values(read, repre_config, line_num) ==
    IF first_error(read).err # "" THEN first_error(read)
    ELSE make_repre_item(read, repre_casts(read), repre_config, line_num)

\* RepreItem.from_csv_row.  line_num is csv_reader.line_num of the row; it
\* is kept with the item so that the properties can name the row.
RepreItem_from_csv_row(columns_config, repre_config, row, line_num) ==
    repre_item_of_values(row_values(columns_config, REPRE_COLUMNS, row),
                         repre_config, line_num)

\* The columns ProductItem.from_csv_row reads, in its order: folder_path,
\* width, height, pixel_aspect, task_name, version, variant, product_type
PRODUCT_COLUMNS ==
    <<COL_FOLDER_PATH, COL_SHOT_WIDTH, COL_SHOT_HEIGHT, COL_SHOT_PIXEL_ASPECT,
      COL_TASK_NAME, COL_VERSION, COL_VARIANT, COL_PRODUCT_TYPE>>

\* ProductItem.__init__ on the values read
product_item_of_values(read) ==
    IF first_error(read).err # "" THEN first_error(read)
    ELSE Ok([folder_path  |-> read[1].val,
             task_name    |-> read[5].val,
             task_type    |-> None,
             version      |-> read[6].val,
             variant      |-> read[7].val,
             product_type |-> read[8].val,
             repre_items  |-> <<>>,
             has_promised_context |-> FALSE,
             parents      |-> None,
             width        |-> read[2].val,
             height       |-> read[3].val,
             pixel_aspect |-> read[4].val])

\* ProductItem.from_csv_row
ProductItem_from_csv_row(columns_config, row) ==
    product_item_of_values(row_values(columns_config, PRODUCT_COLUMNS, row))

\* ProductItem.unique_name if the key kept the case of its letters
unique_name_CaseSensitive(product_item) ==
    IF product_item.folder_path.k # "str" \/ product_item.task_name.k # "str"
    THEN Raise("TypeError")
    ELSE Ok(join(<<"/">>,
                 << product_item.folder_path.v,
                    product_item.task_name.v,
                    remove_char(py_str(product_item.variant)
                                \o py_str(product_item.product_type)
                                \o py_str(product_item.version), " ") >>))

\* ProductItem.unique_name: str.join refuses a None folder path or task name
unique_name(product_item) ==
    IF product_item.folder_path.k # "str" \/ product_item.task_name.k # "str"
    THEN Raise("TypeError")
    ELSE Ok(join(<<"/">>,
                 << product_item.folder_path.v,
                    product_item.task_name.v,
                    lower(remove_char(py_str(product_item.variant)
                                      \o py_str(product_item.product_type)
                                      \o py_str(product_item.version), " ")) >>))

\* ProductItem.instance_name
instance_name(product_item) ==
    lower(remove_char(py_str(product_item.task_name)
                      \o py_str(product_item.variant)
                      \o py_str(product_item.product_type)
                      \o py_str(product_item.version), " "))

\* product_items_by_name is a dict: a sequence of [key, item] in insertion
\* order with no key twice
dict_keys(d) == [i \in 1..Len(d) |-> d[i].key]

dict_index(d, key) == CHOOSE i \in 1..Len(d) : d[i].key = key

dict_has(d, key) == \E i \in 1..Len(d) : d[i].key = key

\* dict_setdefault if a new product item were put before the others
dict_setdefault_Prepends(d, key, item) ==
    IF dict_has(d, key) THEN d ELSE <<[key |-> key, item |-> item]>> \o d

\* Lines 527-528: the product item is kept under its unique name unless
\* the name is there already
dict_setdefault(d, key, item) ==
    IF dict_has(d, key) THEN d ELSE Append(d, [key |-> key, item |-> item])

\* Lines 529-530: ProductItem.add_repre_item on the item of the name
add_repre_item(d, key, repre) ==
    [d EXCEPT ![dict_index(d, key)].item.repre_items = Append(@, repre)]

\* Lines 526-536 for a row whose product item has been read
group_row(product_items_by_name, product_item, uname, repre) ==
    IF uname.err # "" THEN uname
    ELSE IF repre.err # "" THEN repre
    ELSE Ok(add_repre_item(dict_setdefault(product_items_by_name, uname.val,
                                           product_item),
                           uname.val, repre.val))

\* Lines 523-536 once ProductItem.from_csv_row has returned or raised
add_product_row(columns_config, repre_config, product_items_by_name, product, row, line_num) ==
    IF product.err # "" THEN product
    ELSE group_row(product_items_by_name, product.val, unique_name(product.val),
                   RepreItem_from_csv_row(columns_config, repre_config, row, line_num))

\* The body of the row loop of _get_data_from_csv for one row
add_row(columns_config, repre_config, product_items_by_name, row, line_num) ==
    add_product_row(columns_config, repre_config, product_items_by_name,
                    ProductItem_from_csv_row(columns_config, row), row, line_num)

(***************************************************************************)
(* Part 3c : entity resolution, path resolution and the representations    *)
(***************************************************************************)

\* Whether sub occurs in s at position i
occurs_at(s, sub, i) ==
    /\ i >= 1
    /\ i + Len(sub) - 1 <= Len(s)
    /\ \A j \in 1..Len(sub) : s[i + j - 1] = sub[j]

\* s.split(sep)[0] for a non-empty separator
split_head(s, sep) ==
    LET hits == {i \in 1..Len(s) : occurs_at(s, sep, i)}
    IN IF hits = {} THEN s ELSE Take(s, Min(hits) - 1)

\* s.replace(old, new) for a non-empty old, from position i on
RECURSIVE replace_from(_, _, _, _)
replace_from(s, old, new, i) ==
    IF i > Len(s) THEN <<>>
    ELSE IF occurs_at(s, old, i)
         THEN new \o replace_from(s, old, new, i + Len(old))
         ELSE <<s[i]>> \o replace_from(s, old, new, i + 1)

replace(s, old, new) == replace_from(s, old, new, 1)

\* s.count(c) for a character c
count_char(s, c) == Cardinality({i \in 1..Len(s) : s[i] = c})

\* pattern.findall(s) is not empty
re_search(r, s) == \E i \in 1..(Len(s) + 1) : re_ends(r, s, i) # {}

\* r"%\d+d|%d"
PAT_PADDING ==
    R_alt(<<R_seq(<<R_set({"%"}), R_plus(R_digit), R_set({"d"})>>),
            R_word(<<"%", "d">>)>>)

\* IngestCSV._resolve_repre_path
resolve_repre_path(csv_dir, filepath) ==
    IF ~truthy(filepath) THEN filepath
    ELSE LET filedir  == path_split(filepath.v)[1]
             filename == path_split(filepath.v)[2]
             new_filedir == path_join(csv_dir, filedir)
         IN IF filedir = <<>> \/ filedir = <<".">>
            THEN PyStr(path_join(csv_dir, filepath.v))
            ELSE IF ~path_exists(filedir) /\ path_exists(new_filedir)
                 THEN PyStr(path_join(new_filedir, filename))
                 ELSE filepath

\* _get_folder_type_from_regex_settings if the last matching rule won
get_folder_type_from_regex_settings_LastRule(folder_creation_config, folder_name) ==
    LET regexes == folder_creation_config.folder_type_regexes
        hits    == {i \in 1..Len(regexes) : re_match(regexes[i].regex, folder_name)}
    IN IF hits # {} THEN regexes[Max(hits)].folder_type
       ELSE folder_creation_config.folder_create_type

\* IngestCSV._get_folder_type_from_regex_settings
get_folder_type_from_regex_settings(folder_creation_config, folder_name) ==
    LET regexes == folder_creation_config.folder_type_regexes
        hits    == {i \in 1..Len(regexes) : re_match(regexes[i].regex, folder_name)}
    IN IF hits # {} THEN regexes[Min(hits)].folder_type
       ELSE folder_creation_config.folder_create_type

\* IngestCSV._get_task_type_from_task_name
get_task_type_from_task_name(folder_creation_config, task_name) ==
    LET regexes == folder_creation_config.task_type_regexes
        hits    == {i \in 1..Len(regexes) : re_match(regexes[i].regex, task_name)}
    IN IF hits # {} THEN regexes[Min(hits)].task_type
       ELSE folder_creation_config.task_create_type

\* The paths "/a", "/a/b", ... of a sequence of folder names
RECURSIVE parent_paths_of(_, _)
parent_paths_of(names, parent_path) ==
    IF names = <<>> THEN <<>>
    ELSE LET path == parent_path \o <<"/">> \o Head(names)
         IN <<path>> \o parent_paths_of(Tail(names), path)

\* IngestCSV._compute_parents_data
compute_parents_data(folder_creation_config, product_item) ==
    LET names == split(lstrip_set(product_item.folder_path.v, {"/"}), "/")
        parent_folder_names == Take(names, Len(names) - 1)
        parent_paths == parent_paths_of(parent_folder_names, <<>>)
        found == get_folders(Range(parent_paths))
        parent(path) ==
            LET name == rsplit1(path, "/")[Len(rsplit1(path, "/"))]
            IN [entity_name |-> name,
                folder_type |->
                    IF \E f \in found : f.path = path
                    THEN (CHOOSE f \in found : f.path = path).folderType
                    ELSE get_folder_type_from_regex_settings(folder_creation_config, name)]
    IN [i \in 1..Len(parent_paths) |-> parent(parent_paths[i])]

\* a Python list as a value
PyList(items) == [k |-> "list", v |-> items]

\* IngestCSV._add_thumbnail_repre: the thumbnails still to be added, the
\* instance and the explicit output name after the call
add_thumbnail_repre(thumbnails, instance, repre_item, multiple_thumbnails) ==
    LET thumbnail_path == repre_item.thumbnail_path
        unchanged == [thumbnails |-> thumbnails, instance |-> instance,
                      explicit_output_name |-> None]
    IN IF thumbnails = {} THEN unchanged
       ELSE IF ~truthy(thumbnail_path) \/ thumbnail_path.v \notin thumbnails
       THEN unchanged
       ELSE
       LET thumb_dir      == path_split(thumbnail_path.v)[1]
           thumb_file     == path_split(thumbnail_path.v)[2]
           thumb_basename == splitext(thumb_file)[1]
           thumb_ext      == splitext(thumb_file)[2]
           repre_name == IF multiple_thumbnails
                         THEN <<"t","h","u","m","b","n","a","i","l","_">> \o thumb_basename
                         ELSE <<"t","h","u","m","b","n","a","i","l">>
           explicit_output_name == IF multiple_thumbnails THEN repre_item.name ELSE None
           thumbnail_repre_data ==
               dict_update(
                   [name |-> repre_name,
                    ext |-> lstrip_set(thumb_ext, {"."}),
                    files |-> PyStr(thumb_file),
                    stagingDir |-> thumb_dir,
                    stagingDir_persistent |-> TRUE,
                    tags |-> << <<"t","h","u","m","b","n","a","i","l">>, <<"d","e","l","e","t","e">> >>],
                   IF truthy(explicit_output_name)
                   THEN [outputName |-> explicit_output_name] ELSE EmptyDict)
           entry == [type |-> "thumbnail", colorspace |-> None,
                     representation |-> thumbnail_repre_data]
           added == [instance EXCEPT !.prepared_data_for_repres = Append(@, entry)]
       IN [thumbnails |-> thumbnails \ {thumbnail_path.v},
           instance |-> IF "thumbnailPath" \in DOMAIN added
                           /\ truthy(added.thumbnailPath)
                        THEN added
                        ELSE dict_update(added, [thumbnailPath |-> thumbnail_path]),
           explicit_output_name |-> explicit_output_name]

\* Lines 803-823: the data of a media representation
representation_data(repre_item, explicit_output_name, extension, dirname0, files, frame_start, frame_end) ==
    dict_update(dict_update(dict_update(dict_update(
        [name |-> repre_item.name,
         ext |-> Drop(extension, 2),
         files |-> files,
         stagingDir |-> dirname0,
         stagingDir_persistent |-> TRUE,
         tags |-> IF truthy(repre_item.slate_exists)
                  THEN Append(repre_item.tags, <<"h","a","s","_","s","l","a","t","e">>)
                  ELSE repre_item.tags],
        IF extension \in VIDEO_EXTENSIONS
        THEN [fps |-> repre_item.fps, outputName |-> repre_item.name]
        ELSE EmptyDict),
        IF truthy(explicit_output_name)
        THEN [outputName |-> explicit_output_name] ELSE EmptyDict),
        IF truthy(frame_start) THEN [frameStart |-> frame_start] ELSE EmptyDict),
        IF truthy(frame_end) THEN [frameEnd |-> frame_end] ELSE EmptyDict)

\* Lines 825-829: the entry is appended to the instance.  line_num is the
\* row of the entry, kept for the properties.
add_representation_entry(instance, repre_item, explicit_output_name, extension, dirname0, files, frame_start, frame_end) ==
    Ok([instance EXCEPT !.prepared_data_for_repres =
           Append(@, [type |-> "media",
                      colorspace |-> repre_item.colorspace,
                      representation |->
                          representation_data(repre_item, explicit_output_name,
                                              extension, dirname0, files,
                                              frame_start, frame_end),
                      line_num |-> repre_item.line_num])])

\* Lines 786-795: the first collection of the files of the sequence
add_sequence_representation(instance, repre_item, explicit_output_name, extension, dirname0, cols) ==
    IF cols = <<>> THEN Raise("CreatorError: no collections found in directory")
    ELSE add_representation_entry(
             instance, repre_item, explicit_output_name, extension, dirname0,
             PyList(collection_files(cols[1], cols[1].indexes)),
             PyInt(Min(cols[1].indexes)), PyInt(Max(cols[1].indexes)))

\* f"%0{padding}d" for the number of "#" in the name
hash_padding(file_name) ==
    <<"%", "0">> \o nat_str(count_char(file_name, "#")) \o <<"d">>

\* Lines 750-752: the name with its run of "#" replaced by the padding
hash_parts(file_name, seq_padding) ==
    [basename |-> file_name, file_head |-> split_head(file_name, seq_padding),
     is_sequence |-> TRUE, padding_found |-> TRUE]

\* Lines 746-764: the file name, its head, whether it names a sequence, and
\* whether a "%" name has a padding
file_name_parts(file_name) ==
    IF contains(file_name, "#")
    THEN hash_parts(replace(file_name,
                            [i \in 1..count_char(file_name, "#") |-> "#"],
                            hash_padding(file_name)),
                    hash_padding(file_name))
    ELSE IF contains(file_name, "%")
    THEN [basename |-> file_name, file_head |-> split(file_name, "%")[1],
          is_sequence |-> TRUE, padding_found |-> re_search(PAT_PADDING, file_name)]
    ELSE [basename |-> file_name, file_head |-> split(file_name, ".")[1],
          is_sequence |-> FALSE, padding_found |-> TRUE]

\* Lines 735-829 for a row whose representation name is in the settings
add_representation_files(instance, repre_item, explicit_output_name, extension, validate_extensions, parts, dirname0) ==
    IF extension \notin validate_extensions
    THEN Raise("CreatorError: file extension not valid for output")
    ELSE IF ~parts.padding_found
    THEN Raise("CreatorError: file sequence padding not found")
    ELSE IF ~path_exists(dirname0)
    THEN Raise("CreatorError: directory does not exist")
    ELSE IF parts.is_sequence
    THEN add_sequence_representation(
             instance, repre_item, explicit_output_name, extension, dirname0,
             clique_assemble({filename \in listdir(dirname0) :
                                 startswith(filename, parts.file_head)}))
    ELSE add_representation_entry(instance, repre_item, explicit_output_name,
                                  extension, dirname0, PyStr(parts.basename),
                                  None, None)

\* Lines 724-727: the extensions of the first representation of the settings
\* with the name
extensions_of(repre_config, name) ==
    Range(repre_config.representations[
              CHOOSE i \in 1..Len(repre_config.representations) :
                  /\ PyStr(repre_config.representations[i].name) = name
                  /\ \A j \in 1..(i - 1) :
                        PyStr(repre_config.representations[j].name) # name
          ].extensions)

\* IngestCSV._add_representation
add_representation(repre_config, instance, repre_item, explicit_output_name) ==
    IF \A i \in 1..Len(repre_config.representations) :
          PyStr(repre_config.representations[i].name) # repre_item.name
    THEN Raise("CreatorError: representation not found in config")
    ELSE add_representation_files(
             instance, repre_item, explicit_output_name,
             lower(splitext(basename(repre_item.filepath.v))[2]),
             extensions_of(repre_config, repre_item.name),
             file_name_parts(basename(repre_item.filepath.v)),
             dirname(repre_item.filepath.v))

RECURSIVE prepare_from(_, _, _, _, _, _)

\* prepare_next if the loop ended after the first row of the product
prepare_next_StopsAfterFirst(repre_config, repre_items, i, thumbnails, multiple_thumbnails, added) ==
    added

\* Lines 853-858: the loop goes on unless _add_representation raised
prepare_next(repre_config, repre_items, i, thumbnails, multiple_thumbnails, added) ==
    IF added.err # "" THEN added
    ELSE prepare_from(repre_config, repre_items, i + 1, thumbnails,
                      multiple_thumbnails, added.val)

\* Lines 853-858 after _add_thumbnail_repre
prepare_added(repre_config, repre_items, i, multiple_thumbnails, thumb) ==
    prepare_next(repre_config, repre_items, i, thumb.thumbnails, multiple_thumbnails,
                 add_representation(repre_config, thumb.instance, repre_items[i],
                                    thumb.explicit_output_name))

\* The loop of IngestCSV._prepare_representations from repre item i on
prepare_from(repre_config, repre_items, i, thumbnails, multiple_thumbnails, instance) ==
    IF i > Len(repre_items) THEN Ok(instance)
    ELSE prepare_added(repre_config, repre_items, i, multiple_thumbnails,
                       add_thumbnail_repre(thumbnails, instance, repre_items[i],
                                           multiple_thumbnails))

\* Lines 838-842: the thumbnail paths of the rows
thumbnail_paths(repre_items) ==
    {repre_items[i].thumbnail_path.v :
        i \in {j \in 1..Len(repre_items) : truthy(repre_items[j].thumbnail_path)}}

\* IngestCSV._prepare_representations
prepare_representations(repre_config, product_item, instance) ==
    prepare_from(repre_config, product_item.repre_items, 1,
                 thumbnail_paths(product_item.repre_items),
                 Cardinality(thumbnail_paths(product_item.repre_items)) > 1,
                 instance)

(***************************************************************************)
(* Part 3d : the instances of one CSV file                                 *)
(***************************************************************************)

\* IngestCSV.product_type
CSV_PRODUCT_TYPE == <<"c","s","v","_","i","n","g","e","s","t","_","f","i","l","e">>

\* CreatedInstance(product_type, product_name, data, creator): the data of
\* the instance with its product type and name
CreatedInstance(product_type, product_name, data) ==
    dict_update(data, [productType |-> product_type, productName |-> product_name,
                       transient_data |-> EmptyDict])

\* IngestCSV._pass_data_to_csv_instance and the CSV-file instance of
\* _process_csv_file
make_csv_instance(product_name, instance_data, csv_dir, filename) ==
    LET representation == [name |-> <<"c","s","v">>, ext |-> <<"c","s","v">>,
                           files |-> PyStr(filename), stagingDir |-> csv_dir,
                           stagingDir_persistent |-> TRUE]
        data == dict_update(instance_data,
                    [label |-> <<"C","S","V",":"," ">> \o filename,
                     representations |-> <<representation>>,
                     stagingDir |-> csv_dir,
                     stagingDir_persistent |-> TRUE])
    IN dict_update(CreatedInstance(PyStr(CSV_PRODUCT_TYPE), product_name, data),
                   [csvFileData |-> [filename |-> filename, staging_dir |-> csv_dir]])

\* f"v{version:>03}" or "v[next]"
version_label(version) ==
    IF version # None THEN <<"v">> \o zfill(py_str(version), 3)
    ELSE <<"v","[","n","e","x","t","]">>

\* The first comment of the rows that is not empty, else None
first_comment(repre_items) ==
    LET with == {i \in 1..Len(repre_items) : truthy(repre_items[i].comment)}
    IN IF with = {} THEN None ELSE repre_items[Min(with)].comment

\* The keys of a promised context (lines 955-996); the folder path has
\* been split into hierarchy and folder_name
promised_context_data(folder_creation_config, product_item, families, hierarchy, folder_name) ==
    LET size == IF truthy(product_item.width) /\ truthy(product_item.height)
                THEN [resolutionWidth |-> product_item.width,
                      resolutionHeight |-> product_item.height]
                ELSE EmptyDict
        aspect == IF truthy(product_item.pixel_aspect)
                  THEN [pixelAspect |-> product_item.pixel_aspect] ELSE EmptyDict
        tasks == IF truthy(product_item.task_name)
                 THEN [tasks |-> << [name |-> product_item.task_name.v,
                                     type |-> get_task_type_from_task_name(
                                                  folder_creation_config,
                                                  product_item.task_name.v)] >>]
                 ELSE EmptyDict
    IN dict_update(dict_update(dict_update(
           [newHierarchyIntegration |-> TRUE,
            hierarchy |-> hierarchy,
            parents |-> product_item.parents,
            families |-> Append(families, "shot"),
            heroTrack |-> TRUE,
            folder_type |-> get_folder_type_from_regex_settings(
                                folder_creation_config, folder_name)],
           aspect), size), tasks)

\* One turn of the loop of _create_instances_from_csv_data: the instance of
\* a product item
create_instance(folder_creation_config, repre_config, product_item) ==
    LET folder_path  == product_item.folder_path
        version      == product_item.version
        product_name == get_product_name(product_item.task_name, product_item.task_type,
                                         product_item.product_type, product_item.variant)
        label == py_str(folder_path) \o <<"_">> \o product_name \o <<"_">>
                 \o version_label(version)
        repre_items == product_item.repre_items
        first_repre_item == repre_items[1]
        slate_exists  == \E i \in 1..Len(repre_items) : truthy(repre_items[i].slate_exists)
        is_reviewable == \E i \in 1..Len(repre_items) :
                            <<"r","e","v","i","e","w">> \in Range(repre_items[i].tags)
        families == <<"csv_ingest">>
                    \o (IF slate_exists THEN <<"slate">> ELSE <<>>)
                    \o (IF is_reviewable THEN <<"review">> ELSE <<>>)
        instance_data ==
            [name |-> instance_name(product_item),
             folderPath |-> folder_path,
             families |-> families,
             label |-> label,
             task |-> product_item.task_name,
             variant |-> product_item.variant,
             source |-> "csv",
             frameStart |-> first_repre_item.frame_start,
             frameEnd |-> first_repre_item.frame_end,
             handleStart |-> first_repre_item.handle_start,
             handleEnd |-> first_repre_item.handle_end,
             fps |-> first_repre_item.fps,
             version |-> version,
             comment |-> first_comment(repre_items),
             prepared_data_for_repres |-> <<>>]
        parts == rsplit1(folder_path.v, "/")
        promised == IF product_item.has_promised_context
                    THEN promised_context_data(folder_creation_config, product_item,
                                               families, parts[1], parts[2])
                    ELSE EmptyDict
        new_instance == CreatedInstance(product_item.product_type, product_name,
                                        dict_update(instance_data, promised))
        prepared == prepare_representations(repre_config, product_item, new_instance)
    IN IF product_item.has_promised_context /\ Len(parts) # 2
       THEN Raise("ValueError: not enough values to unpack")
       ELSE IF prepared.err # "" THEN prepared
       ELSE IF product_item.has_promised_context
       THEN Ok([prepared.val EXCEPT !.transient_data = [has_promised_context |-> TRUE]])
       ELSE prepared

\* HostContext.add_instance: the instance is appended to the stored list
add_instance(instances, instance) == Append(instances, instance)

(***************************************************************************)
(* Part 3e : entity resolution and duplicate detection of                  *)
(*           _get_data_from_csv                                            *)
(***************************************************************************)

\* The product items of the dict, in insertion order
dict_values(d) == [i \in 1..Len(d) |-> d[i].item]

\* Lines 538-605: folders and tasks of the product items
resolve_entities(folder_creation_config, enabled, product_items_by_name) ==
    LET items == dict_values(product_items_by_name)
        folder_paths == {items[i].folder_path.v : i \in 1..Len(items)}
        folders == get_folders(folder_paths)
        missing_paths == folder_paths \ {f.path : f \in folders}
        task_names == {items[i].task_name.v : i \in 1..Len(items)}
        tasks == get_tasks({f.id : f \in folders}, task_names)
        folder_id(path) == (CHOOSE f \in folders : f.path = path).id
        task_entities(item) ==
            {task \in tasks : /\ task.folderId = folder_id(item.folder_path.v)
                              /\ task.name = item.task_name.v}
        resolved(item) ==
            IF item.folder_path.v \in missing_paths
            THEN [item EXCEPT !.has_promised_context = TRUE,
                              !.task_type = None,
                              !.parents = PyList(compute_parents_data(
                                              folder_creation_config, item))]
            ELSE IF task_entities(item) = {} THEN item
            ELSE [item EXCEPT !.task_type =
                     PyStr((CHOOSE task \in task_entities(item) : TRUE).taskType)]
        missing_tasks ==
            {join(<<"/">>, <<items[i].folder_path.v, items[i].task_name.v>>) :
                i \in {j \in 1..Len(items) :
                          /\ items[j].folder_path.v \notin missing_paths
                          /\ task_entities(items[j]) = {}}}
    IN IF missing_paths # {} /\ ~enabled
       THEN [err |-> "CreatorError: folder creation is disabled but found missing folder",
             val |-> None, msg |-> missing_paths]
       ELSE IF missing_tasks # {}
       THEN [err |-> "CreatorError: task not found", val |-> None,
             msg |-> missing_tasks]
       ELSE Ok([i \in 1..Len(items) |->
                   [key |-> product_items_by_name[i].key, item |-> resolved(items[i])]])

\* Lines 612-617: the paths of a product's rows made absolute
resolved_repre_items(csv_dir, repre_items) ==
    [i \in 1..Len(repre_items) |->
        [repre_items[i] EXCEPT
            !.filepath = resolve_repre_path(csv_dir, @),
            !.thumbnail_path = resolve_repre_path(csv_dir, @)]]

\* duplicated_paths if a row were compared with the row before it only
duplicated_paths_AdjacentRows(repre_items) ==
    {repre_items[i].filepath :
        i \in {k \in 2..Len(repre_items) :
                  repre_items[k - 1].filepath = repre_items[k].filepath}}

\* Lines 608-623: the file paths that a later row of the product repeats
duplicated_paths(repre_items) ==
    {repre_items[i].filepath :
        i \in {k \in 1..Len(repre_items) :
                  \E j \in 1..(k - 1) : repre_items[j].filepath = repre_items[k].filepath}}

\* Lines 607-629: the first product with a repeated file path stops the
\* ingestion
check_duplicates(csv_dir, product_items_by_name) ==
    LET resolved == [i \in 1..Len(product_items_by_name) |->
                       [product_items_by_name[i] EXCEPT
                           !.item.repre_items = resolved_repre_items(csv_dir, @)]]
        bad == {i \in 1..Len(resolved) :
                   duplicated_paths(resolved[i].item.repre_items) # {}}
    IN IF bad # {}
       THEN [err |-> "CreatorError: duplicate filename in csv file", val |-> None,
             msg |-> duplicated_paths(resolved[Min(bad)].item.repre_items)]
       ELSE Ok(resolved)

\* Lines 487-519: the names of the required columns that the header of the
\* file does not have
missing_required_columns(columns_config, fieldnames) ==
    {columns_config.columns[i].name :
        i \in {j \in 1..Len(columns_config.columns) :
                  /\ columns_config.columns[j].required_column
                  /\ columns_config.columns[j].name \notin Range(fieldnames)}}

(***************************************************************************)
(* Part 3f : the editorial creator (create_editorial_advanced.py): the     *)
(*           content of a clip folder.  A clip folder is modelled as a     *)
(*           flat list of files, each with at most one run of digits in    *)
(*           its name.                                                     *)
(***************************************************************************)

\* The positions at which the string w occurs in the string s
occurrences(s, w) ==
    {i \in 1..(Len(s) - Len(w) + 1) : SubSeq(s, i, i + Len(w) - 1) = w}

\* w in s, for strings
has_substring(s, w) == occurrences(s, w) # {}

\* s.endswith(p)
endswith(s, p) == Len(p) <= Len(s) /\ SubSeq(s, Len(s) - Len(p) + 1, Len(s)) = p

\* CONTENT_TYPE_MAPPING
CONTENT_TYPE_MAPPING(item_type) ==
    CASE item_type = "other" -> {"audio", "geometry", "workfile"}
      [] item_type = "single" -> {"video", "image_single"}
      [] item_type = "collection" -> {"image_sequence"}
      [] item_type = "thumbnail" -> {"thumbnail"}

RECURSIVE run_length(_, _, _)
\* The length of the longest run of characters of cs in s from position i
run_length(s, i, cs) ==
    IF i <= Len(s) /\ s[i] \in cs THEN 1 + run_length(s, i + 1, cs) ELSE 0

RECURSIVE run_length_outside(_, _, _)
\* The length of the longest run of characters not of cs in s from position i
run_length_outside(s, i, cs) ==
    IF i <= Len(s) /\ s[i] \notin cs THEN 1 + run_length_outside(s, i + 1, cs) ELSE 0

\* VARIANTS_PATTERN "(?:_[^_v\.]+|\d+)?" at position i of s: the length of
\* what it takes
variants_length(s, i) ==
    IF i <= Len(s) /\ s[i] = "_" /\ run_length_outside(s, i + 1, {"_", "v", "."}) > 0
    THEN 1 + run_length_outside(s, i + 1, {"_", "v", "."})
    ELSE run_length(s, i, Range(DigitChars))

\* Group 1 of the search with the name found last at position q
product_name_at(product_name, head, q) ==
    SubSeq(head, q, q + Len(product_name) - 1
                      + variants_length(head, q + Len(product_name)))

\* re.compile(f".*({re.escape(product_name)}{VARIANTS_PATTERN})").search(head):
\* group 1 of the match, None without a match
product_name_search(product_name, head) ==
    IF ~has_substring(head, product_name) THEN None
    ELSE PyStr(product_name_at(product_name, head, Max(occurrences(head, product_name))))

\* The positions of a "v" that two digits follow
version_positions(file) ==
    {p \in 1..Len(file) : file[p] = "v" /\ run_length(file, p + 1, Range(DigitChars)) >= 2}

\* The digits of group 1 after the "v" at position p: at most four
version_digits(file, p, run) ==
    SubSeq(file, p + 1, p + (IF run > 4 THEN 4 ELSE run))

\* re.match(VERSION_IN_FILE_PATTERN, file): int(match.group(1)), None without
\* a match.  The greedy ".*" ends at the last "v" that two digits follow.
version_in_file(file) ==
    IF version_positions(file) = {} THEN None
    ELSE PyInt(digits_val(version_digits(
             file, Max(version_positions(file)),
             run_length(file, Max(version_positions(file)) + 1, Range(DigitChars)))))

\* The positions of the digits of a file name
digit_positions(name) == {i \in 1..Len(name) : IsDigit(name[i])}

\* What stands before and after the run of digits of a file name
name_head(name) == Take(name, Min(digit_positions(name)) - 1)

name_tail(name) == Drop(name, Max(digit_positions(name)) + 1)

\* Two file names are members of one clique collection: the same head and
\* tail around runs of digits of the same width
same_collection(a, b) ==
    /\ digit_positions(a) # {} /\ digit_positions(b) # {}
    /\ name_head(a) = name_head(b)
    /\ name_tail(a) = name_tail(b)
    /\ Cardinality(digit_positions(a)) = Cardinality(digit_positions(b))

\* The file is a member of a collection of at least two of the files
is_collected(filenames, file) ==
    \E i \in 1..Len(filenames) :
        filenames[i] # file /\ same_collection(filenames[i], file)

\* clique.assemble(filenames)[0]: the collections, each by the first of its
\* files
assemble_collections(filenames) ==
    SelectSeq(filenames,
              LAMBDA f : /\ is_collected(filenames, f)
                         /\ \A i \in 1..Len(filenames) :
                               (filenames[i] # f /\ same_collection(filenames[i], f))
                                   => \E j \in 1..(i - 1) : filenames[j] = f)

\* clique.assemble(filenames)[1]: the files of no collection
assemble_remainder(filenames) ==
    SelectSeq(filenames, LAMBDA f : ~is_collected(filenames, f))

\* find_string_differences, lines 1312-1323: the collections by head and
\* tail, then the files of no collection, all without extension
processed_files(filenames) ==
    [i \in 1..Len(assemble_collections(filenames)) |->
        splitext(name_head(assemble_collections(filenames)[i])
                 \o name_tail(assemble_collections(filenames)[i]))[1]]
    \o [i \in 1..Len(assemble_remainder(filenames)) |->
           splitext(assemble_remainder(filenames)[i])[1]]

\* The greatest length of the strings
longest(strs) == Max({Len(strs[i]) : i \in 1..Len(strs)} \cup {0})

\* Lines 1325-1334: the length of the prefix.  zip_longest goes on to the end
\* of the longest string; a position is in the prefix while the strings that
\* reach it all have the same character there
common_prefix_len(strs) ==
    Min({n \in 1..longest(strs) :
            Cardinality({strs[i][n] : i \in {j \in 1..Len(strs) : Len(strs[j]) >= n}}) # 1}
        \cup {longest(strs) + 1}) - 1

\* Lines 1336-1342: the length of the suffix, the same from the end
common_suffix_len(strs) ==
    Min({n \in 1..longest(strs) :
            Cardinality({strs[i][Len(strs[i]) - n + 1] :
                            i \in {j \in 1..Len(strs) : Len(strs[j]) >= n}}) # 1}
        \cup {longest(strs) + 1}) - 1

\* s[a:e] for 0 <= a and an end e that may be below 0 or a
py_slice(s, a, e) == IF a >= e THEN <<>> ELSE SubSeq(s, a + 1, e)

\* Lines 1351-1354: diff
difference_of(processed, prefix_len, suffix_len) ==
    py_slice(processed, prefix_len, Len(processed) - suffix_len)

\* Lines 1357-1361: the version string "v" with its digits is taken out of
\* the diff
without_version(diff) ==
    IF version_positions(diff) = {} THEN diff
    ELSE replace(diff,
                 <<"v">> \o version_digits(
                     diff, Max(version_positions(diff)),
                     run_length(diff, Max(version_positions(diff)) + 1,
                                Range(DigitChars))),
                 <<>>)

\* Lines 1363-1364: diff.strip().strip("._")
cleaned(diff) ==
    rstrip_set(lstrip_set(strip(diff), {".", "_"}), {".", "_"})

\* find_string_differences(files)[original] for a file of no collection
find_string_differences(filenames, original) ==
    cleaned(without_version(
        difference_of(splitext(original)[1],
                      common_prefix_len(processed_files(filenames)),
                      common_suffix_len(processed_files(filenames)))))

\* "thumb", the mark of a thumbnail file
THUMB == <<"t","h","u","m","b">>

\* One item of the content of a clip folder, found among the files of the
\* folder itself (clip_dir_subpath "/")
content_item(preset_name, product_name, item_type, files, suffix) ==
    [preset_name |-> preset_name, clip_dir_subpath |-> <<"/">>,
     product_name |-> product_name, type |-> item_type, files |-> files,
     suffix |-> suffix]

\* The files that start with head and end with tail
files_between(filenames, head, tail) ==
    SelectSeq(filenames, LAMBDA file : startswith(file, head) /\ endswith(file, tail))

\* Lines 688-707: the item of a collection whose head holds the product
\* name; filtered_filenames are the files of its head and tail that are no
\* thumbnails
collection_item(product_name, filtered_filenames, match, suffix) ==
    content_item(product_name, match.v,
                 IF splitext(filtered_filenames[1])[2] \in IMAGE_EXTENSIONS
                 THEN "collection" ELSE "other",
                 filtered_filenames, suffix)

\* Lines 673-707: the items of the collections of the files
collection_items(product_name, filenames) ==
    LET found == SelectSeq(assemble_collections(filenames),
                           LAMBDA f : product_name_search(product_name, name_head(f)) # None)
    IN [i \in 1..Len(found) |->
           collection_item(product_name,
                           SelectSeq(files_between(filenames, name_head(found[i]),
                                                   name_tail(found[i])),
                                     LAMBDA file : ~has_substring(file, THUMB)),
                           product_name_search(product_name, name_head(found[i])),
                           find_string_differences(
                               filenames, name_head(found[i]) \o name_tail(found[i])))]

\* Lines 719-756: the item of a file of no collection whose name holds the
\* product name
reminder_item(product_name, reminder, filtered_filenames, match, suffix) ==
    content_item(product_name, match.v,
                 IF has_substring(reminder, THUMB) THEN "thumbnail"
                 ELSE IF splitext(filtered_filenames[1])[2]
                            \in (VIDEO_EXTENSIONS \cup IMAGE_EXTENSIONS)
                      THEN "single" ELSE "other",
                 filtered_filenames,
                 replace(suffix, match.v, <<>>))

\* Lines 709-756: the items of the files of no collection
reminder_items(product_name, filenames) ==
    LET found == SelectSeq(assemble_remainder(filenames),
                           LAMBDA f : product_name_search(product_name,
                                                          splitext(f)[1]) # None)
    IN [i \in 1..Len(found) |->
           reminder_item(product_name, found[i],
                         files_between(filenames, splitext(found[i])[1],
                                       splitext(found[i])[2]),
                         product_name_search(product_name, splitext(found[i])[1]),
                         find_string_differences(
                             filenames,
                             files_between(filenames, splitext(found[i])[1],
                                           splitext(found[i])[2])[1]))]

\* EditorialAdvancedCreator._include_files_for_processing in strict mode:
\* the items it appends
include_files_for_processing(product_name, filenames) ==
    collection_items(product_name, filenames) \o reminder_items(product_name, filenames)

RECURSIVE matched_product_items(_, _)
\* Lines 514-568 for a folder without sub-folders: the items of all presets
matched_product_items(product_type_presets, filenames) ==
    IF product_type_presets = <<>> THEN <<>>
    ELSE include_files_for_processing(Head(product_type_presets).product_name, filenames)
         \o matched_product_items(Tail(product_type_presets), filenames)

\* Lines 494-502: the folders of the media folder that are named as a clip
clip_folders_of(media, clip_names_set) == DOMAIN media \cap clip_names_set

\* Lines 508-578: the dict of the clip folders that hold matching items
clip_content_of(media, clip_names_set, product_type_presets) ==
    [folder \in {f \in clip_folders_of(media, clip_names_set) :
                    matched_product_items(product_type_presets, media[f]) # <<>>} |->
        matched_product_items(product_type_presets, media[folder])]

(***************************************************************************)
(* Part 3g : the product instances of a clip                               *)
(*           (EditorialAdvancedCreator._make_product_instance)             *)
(***************************************************************************)

\* Lines 815-818: an extension of the filter with its dot, in lower case
extension_filter(ext) == lower(IF startswith(ext, <<".">>) THEN ext ELSE <<".">> \o ext)

\* Lines 823-844: the file passes the filters of the representation preset
file_matches(item_type, repre_preset, file) ==
    /\ repre_preset.content_type \in CONTENT_TYPE_MAPPING(item_type)
    /\ \E i \in 1..Len(repre_preset.extensions) :
          endswith(lower(file), extension_filter(repre_preset.extensions[i]))
    /\ \/ repre_preset.patterns = <<>>
       \/ \E i \in 1..Len(repre_preset.patterns) :
             re_match(repre_preset.patterns[i], file)

\* Lines 821-844: matching_files
matching_files_of(item, repre_preset) ==
    SelectSeq(item.files, LAMBDA file : file_matches(item.type, repre_preset, file))

\* Lines 860-861: a single matching file is kept as a string, several as a
\* list
repre_files(matching_files) ==
    IF Len(matching_files) = 1 THEN PyStr(matching_files[1])
    ELSE PyList(matching_files)

\* Lines 875-876: the suffix of the item goes into the representation
suffix_is_used(suffix) == suffix # <<>> /\ ~has_substring(suffix, THUMB)

\* the name of the representation without the suffix of its item
repre_name_of_RuleName(repre_preset, suffix) == repre_preset.name

\* Lines 865 and 875-878: the name of the representation
repre_name_of(repre_preset, suffix) ==
    IF suffix_is_used(suffix) THEN repre_preset.name \o <<"_">> \o suffix
    ELSE repre_preset.name

\* Lines 856-878: repre_data; there is no outputName without a suffix
repre_data_of(repre_preset, matching_files, suffix) ==
    dict_update(
        [ext |-> lower(lstrip_set(splitext(matching_files[1])[2], {"."})),
         name |-> repre_name_of(repre_preset, suffix),
         files |-> repre_files(matching_files),
         content_type |-> repre_preset.content_type,
         repre_preset_name |-> repre_preset.name,
         tags |-> repre_preset.tags,
         custom_tags |-> repre_preset.custom_tags],
        IF suffix_is_used(suffix) THEN [outputName |-> suffix] ELSE EmptyDict)

\* Lines 807-880: the representations an item gives under the presets
item_representations(item, pres_representations) ==
    LET hits == SelectSeq(pres_representations,
                          LAMBDA repre_preset : matching_files_of(item, repre_preset) # <<>>)
    IN [i \in 1..Len(hits) |->
           repre_data_of(hits[i], matching_files_of(item, hits[i]), item.suffix)]

\* Lines 800-804 and 879-880: the representations are added to the group of
\* the product name, which is made if it is not there
add_to_group(grouped, product_name, representations) ==
    IF \E i \in 1..Len(grouped) : grouped[i].key = product_name
    THEN [i \in 1..Len(grouped) |->
             IF grouped[i].key = product_name
             THEN [key |-> product_name,
                   representations |-> grouped[i].representations \o representations]
             ELSE grouped[i]]
    ELSE Append(grouped, [key |-> product_name, representations |-> representations])

RECURSIVE group_representations(_, _, _)
\* Lines 792-880, the first pass: grouped_representations in insertion order
group_representations(grouped, clip_content_items, product_preset) ==
    IF clip_content_items = <<>> THEN grouped
    ELSE IF Head(clip_content_items).preset_name # product_preset.product_name
    THEN group_representations(grouped, Tail(clip_content_items), product_preset)
    ELSE group_representations(
             add_to_group(grouped, Head(clip_content_items).product_name,
                          item_representations(Head(clip_content_items),
                                               product_preset.representations)),
             Tail(clip_content_items), product_preset)

\* Lines 885-893: a group without representations and a group of one
\* thumbnail are skipped
group_is_skipped(representations) ==
    \/ representations = <<>>
    \/ Len(representations) = 1 /\ representations[1].content_type = "thumbnail"

\* "for file in repre['files']": the files of a list, the characters of a
\* string
iterated_files(files) ==
    IF files.k = "str" THEN [i \in 1..Len(files.v) |-> <<files.v[i]>>]
    ELSE files.v

\* Lines 955-962: all_found_versions
all_found_versions(representations) ==
    {version.v : version \in
        {version_in_file(file) :
            file \in UNION {Range(iterated_files(representations[i].files)) :
                               i \in 1..Len(representations)}} \ {None}}

\* EditorialAdvancedCreator._extract_version_from_files
extract_version_from_files(representations) ==
    IF all_found_versions(representations) # {}
    THEN PyInt(Max(all_found_versions(representations)))
    ELSE None

\* Lines 897-901: the version of the product instance
version_of(product_preset, representations) ==
    IF product_preset.versioning_type = "from_file"
    THEN extract_version_from_files(representations)
    ELSE IF product_preset.versioning_type = "locked"
    THEN PyInt(product_preset.locked)
    ELSE None

\* reviewable as it is before the representations are looked at
is_reviewable_Never(pres_representations, representations) == FALSE

\* Lines 904-912: reviewable
is_reviewable(pres_representations, representations) ==
    \E i \in 1..Len(representations) : \E j \in 1..Len(pres_representations) :
        /\ pres_representations[j].name = representations[i].repre_preset_name
        /\ <<"r","e","v","i","e","w">> \in Range(pres_representations[j].tags)

(***************************************************************************)
(* Part 3h : clips, timing and the instance data of the editorial creator  *)
(***************************************************************************)

\* EditorialAdvancedCreator._validate_clip_for_processing
validate_clip_for_processing(otio_clip) ==
    /\ otio_clip.name # None
    /\ otio_clip.schema # "Gap"
    /\ ~otio_clip.generator_reference
    /\ otio_clip.schema # "Transition"

\* EditorialAdvancedCreator._restore_otio_source_range
restore_otio_source_range(otio_clip) ==
    [otio_clip EXCEPT !.source_range = otio_clip.range_in_parent]

\* TimeRange.end_time_inclusive() of a range of whole frames
end_time_inclusive(range) ==
    IF range.duration > 1 THEN range.start_time + range.duration - 1
    ELSE range.start_time

\* abs(x)
py_abs(x) == IF x < 0 THEN 0 - x ELSE x

\* track_start_frame as it is for a track without a source range
track_start_frame_of_Zero(track, timeline_frame_start) == 0

\* Lines 584-590: track_start_frame; a track without a source range ends in
\* the AttributeError branch
track_start_frame_of(track, timeline_frame_start) ==
    IF track.source_range = None THEN 0
    ELSE py_abs(track.source_range.start_time) - timeline_frame_start

\* the frame of the clip in its parent with the timeline offset alone
clip_frame_NoTrackStart(frame, timeline_offset, track_start_frame) ==
    frame + timeline_offset

\* Lines 1153-1161: clip_in or clip_out from the frame of the clip in its
\* parent
clip_frame(frame, timeline_offset, track_start_frame) ==
    IF timeline_offset # 0 THEN frame + track_start_frame + timeline_offset
    ELSE frame + track_start_frame

\* Lines 1167-1182: the timing data once clip_in and clip_out are known
timing_data_of(clip_in, clip_out, clip_duration, source_in, workfile_start_frame) ==
    [frameStart |-> IF workfile_start_frame = None THEN clip_in
                    ELSE workfile_start_frame.v,
     frameEnd |-> (IF workfile_start_frame = None THEN clip_in
                   ELSE workfile_start_frame.v) + (clip_duration - 1),
     clipIn |-> clip_in,
     clipOut |-> clip_out,
     clipDuration |-> clip_duration,
     sourceIn |-> source_in,
     sourceOut |-> source_in + clip_duration]

\* EditorialAdvancedCreator._get_timing_data; the duration and the trimmed
\* range of a clip are those of its source range
get_timing_data(otio_clip, timeline_offset, track_start_frame, workfile_start_frame) ==
    timing_data_of(
        clip_frame(otio_clip.range_in_parent.start_time, timeline_offset,
                   track_start_frame),
        clip_frame(end_time_inclusive(otio_clip.range_in_parent), timeline_offset,
                   track_start_frame),
        otio_clip.source_range.duration,
        otio_clip.source_range.start_time,
        workfile_start_frame)

\* s.split(sep)[-1]: what follows the last occurrence of sep in s
after_last(s, sep) ==
    IF has_substring(s, sep) THEN Drop(s, Max(occurrences(s, sep)) + Len(sep)) ELSE s

\* EditorialAdvancedCreator._set_product_data_to_instance with a product
\* name and no variant: the instance data after the call
set_product_data_to_instance(instance_data, product_type, product_name) ==
    dict_update(instance_data,
        [label |-> instance_data.creator_attributes.folderPath \o <<" ">> \o product_name,
         variant |-> lower(after_last(product_name, product_type)),
         productType |-> product_type,
         productName |-> product_name])

\* ShotMetadataSolver.generate_data: the name of the shot and its folder,
\* for settings that neither rename the shot nor add parents or tasks
generate_data(clip_name, parent_folder_path) ==
    [shot_name |-> clip_name,
     folderPath |-> parent_folder_path \o <<"/">> \o clip_name]

\* EditorialAdvancedCreator._get_base_instance_data
get_base_instance_data(otio_clip, instance_data, track_start_frame, folder_entity) ==
    [shotName |-> generate_data(splitext(otio_clip.name.v)[1], folder_entity.path).shot_name,
     variant |-> instance_data.variant,
     task |-> None,
     newHierarchyIntegration |-> TRUE,
     trackStartFrame |-> track_start_frame,
     timelineOffset |-> instance_data.timeline_offset,
     creator_attributes |->
        dict_update(
            dict_update([workfile_start_frame |-> instance_data.workfile_start_frame,
                         fps |-> instance_data.fps,
                         handle_start |-> instance_data.handle_start,
                         handle_end |-> instance_data.handle_end],
                        get_timing_data(otio_clip, instance_data.timeline_offset,
                                        track_start_frame,
                                        instance_data.workfile_start_frame)),
            [folderPath |-> generate_data(splitext(otio_clip.name.v)[1],
                                          folder_entity.path).folderPath]),
     folderPath |-> folder_entity.path]

\* CreatedInstance gives an instance without an id a new one; the n-th
\* instance of a session gets the n-th id
new_instance_id(n) == [k |-> "uuid", v |-> n]

\* EditorialClipInstanceCreatorBase.create: the instance that is stored
clip_creator_create(instance_data, instance_id) ==
    dict_update(CreatedInstance(instance_data.productType, instance_data.productName,
                                instance_data),
                [instance_id |-> instance_id])

\* Lines 984-990: the data of the shot instance of a clip
shot_instance_data(otio_clip, base_instance_data) ==
    dict_update(set_product_data_to_instance(base_instance_data,
                                             <<"s","h","o","t">>,
                                             <<"s","h","o","t","M","a","i","n">>),
                [otioClip |-> otio_clip])

\* parenting_data left as it is before the shot instance is created
parenting_data_of_Unset(c_instance) ==
    [instance_label |-> None, instance_id |-> None]

\* Lines 994-999: parenting_data after the shot instance has been created
parenting_data_of(c_instance) ==
    [instance_label |-> PyStr(c_instance.label), instance_id |-> c_instance.instance_id]

\* Lines 914-935: the data of the product instance of a group
product_instance_data(product_preset, base_instance_data, parenting_data, group) ==
    dict_update(
        set_product_data_to_instance(base_instance_data, product_preset.product_type,
                                     group.key),
        [parent_instance_id |-> parenting_data.instance_id,
         creator_attributes |->
            IF product_preset.product_type
                  \in {<<"m","o","d","e","l">>, <<"w","o","r","k","f","i","l","e">>,
                       <<"c","a","m","e","r","a">>}
            THEN [parent_instance |-> parenting_data.instance_label]
            ELSE [parent_instance |-> parenting_data.instance_label,
                  add_review_family |-> is_reviewable(product_preset.representations,
                                                      group.representations)],
         version |-> version_of(product_preset, group.representations),
         prep_representations |-> group.representations])

\* Lines 883-942: the instances of the groups that are not skipped, the
\* first of them with the id first_id
product_instances(product_preset, base_instance_data, parenting_data, grouped, first_id) ==
    LET emitted == SelectSeq(grouped,
                             LAMBDA group : ~group_is_skipped(group.representations))
    IN [i \in 1..Len(emitted) |->
           clip_creator_create(
               product_instance_data(product_preset, base_instance_data,
                                     parenting_data, emitted[i]),
               new_instance_id(first_id + i - 1))]

\* Lines 598-612: the clip is left out because it has no content
ignored_for_no_content(product_type_presets, clip_related_content) ==
    \/ clip_related_content = None
    \/ clip_related_content.v = <<>>
    \/ ~\E p \in 1..Len(product_type_presets) :
          \E i \in 1..Len(clip_related_content.v) :
              has_substring(clip_related_content.v[i].product_name,
                            product_type_presets[p].product_name)

\* clip_content.get(name): the items of the folder as a list, None without
\* the key
clip_content_get(clip_content, name) ==
    IF name \in DOMAIN clip_content THEN PyList(clip_content[name]) ELSE None

(***************************************************************************)
(* Part 3i : the collectors of the editorial instances                     *)
(*           (CollectShotInstance.process, CollectClipInstance.process)    *)
(***************************************************************************)

PyDict(d) == [k |-> "dict", v |-> d]

\* float(n) of a whole number
float_of(n) == PyFloat(n < 0, py_abs(n), <<>>)

\* CollectShotInstance.SHARED_KEYS
SHARED_KEYS ==
    {"folderPath", "fps", "handleStart", "handleEnd", "frameStart", "frameEnd",
     "clipIn", "clipOut", "clipDuration", "sourceIn", "sourceOut", "otioClip",
     "workfileFrameStart"}

\* CollectShotInstance._get_otio_clip: the clips of the timeline that have
\* the name of the clip of the instance; clips.pop() takes the last of them
get_otio_clip(data, context) ==
    LET clips == SelectSeq(context.otioTimeline,
                           LAMBDA clip : clip.name = data.otioClip.name)
    IN IF clips = <<>> THEN Raise("IndexError") ELSE Ok(clips[Len(clips)])

\* CollectShotInstance._solve_inputs_to_data
solve_inputs_to_data(data) ==
    LET cr_attrs == data.creator_attributes
        workfile_start_frame == cr_attrs.workfile_start_frame.v
        frame_dur == cr_attrs.frameEnd - cr_attrs.frameStart
    IN [fps |-> float_of(cr_attrs.fps),
        handleStart |-> cr_attrs.handle_start,
        handleEnd |-> cr_attrs.handle_end,
        frameStart |-> workfile_start_frame,
        frameEnd |-> workfile_start_frame + frame_dur,
        clipIn |-> cr_attrs.clipIn,
        clipOut |-> cr_attrs.clipOut,
        clipDuration |-> cr_attrs.clipDuration,
        sourceIn |-> cr_attrs.sourceIn,
        sourceOut |-> cr_attrs.sourceOut,
        workfileFrameStart |-> workfile_start_frame,
        folderPath |-> cr_attrs.folderPath,
        integrate |-> FALSE]

\* context.data.get(key) or the default
context_get(context, key, default) ==
    IF key \in DOMAIN context THEN context[key] ELSE default

\* CollectShotInstance._distribute_shared_data: context.data after it
distribute_shared_data(data, context) ==
    dict_update(
        context,
        [editorialSharedData |->
            dict_update(context_get(context, "editorialSharedData", EmptyDict),
                        data.instance_id
                            :> [key \in DOMAIN data \cap SHARED_KEYS |-> data[key]])])

RECURSIVE update_dict(_, _)
\* CollectShotInstance._update_dict: new_dict after the loop over ex_dict
update_dict(ex_dict, new_dict) ==
    [key \in DOMAIN ex_dict \cup DOMAIN new_dict |->
        IF key \notin DOMAIN ex_dict THEN new_dict[key]
        ELSE IF key \in DOMAIN new_dict /\ ex_dict[key].k = "dict"
        THEN PyDict(update_dict(ex_dict[key].v, new_dict[key].v))
        ELSE IF \/ ~truthy(ex_dict[key])
                \/ key \notin DOMAIN new_dict
                \/ ~truthy(new_dict[key])
        THEN ex_dict[key]
        ELSE new_dict[key]]

\* Lines 151-191 of _solve_hierarchy_context: in_info of a shot that has
\* no resolution of its own
in_info_of(data) ==
    PyDict([entity_type |-> PyStr(<<"f","o","l","d","e","r">>),
            folder_type |-> PyStr(<<"S","h","o","t">>),
            attributes |->
                PyDict([handleStart |-> PyInt(data.handleStart),
                        handleEnd |-> PyInt(data.handleEnd),
                        frameStart |-> PyInt(data.frameStart),
                        frameEnd |-> PyInt(data.frameEnd),
                        clipIn |-> PyInt(data.clipIn),
                        clipOut |-> PyInt(data.clipOut),
                        fps |-> data.fps]),
            tasks |-> PyDict(data.tasks)])

RECURSIVE nested_under(_, _)
\* Lines 193-206: actual, wrapped into the parents from the last to the first
nested_under(parents, actual) ==
    IF parents = <<>> THEN actual
    ELSE LET parent == parents[Len(parents)]
         IN nested_under(
                SubSeq(parents, 1, Len(parents) - 1),
                parent.entity_name :>
                    PyDict(dict_update(
                        [entity_type |-> PyStr(parent.entity_type),
                         children |-> PyDict(actual)],
                        IF parent.entity_type = <<"f","o","l","d","e","r">>
                        THEN [folder_type |-> PyStr(parent.folder_type)]
                        ELSE EmptyDict)))

\* CollectShotInstance._solve_hierarchy_context: context.data after it
solve_hierarchy_context(data, context) ==
    dict_update(
        context,
        [hierarchyContext |->
            update_dict(
                context_get(context, "hierarchyContext", EmptyDict),
                nested_under(IF "parents" \in DOMAIN data THEN data.parents ELSE <<>>,
                             after_last(data.folderPath, <<"/">>) :> in_info_of(data)))])

\* CollectShotInstance.process: instance.data and context.data after the
\* call, or the exception it raises
collect_shot_instance(data, context) ==
    IF ~has_substring(data.creator_identifier, <<"e","d","i","t","o","r","i","a","l">>)
    THEN Ok([data |-> data, context |-> context])
    ELSE IF get_otio_clip(data, context).err # ""
    THEN get_otio_clip(data, context)
    ELSE LET solved == dict_update(
                           dict_update(data,
                                       [otioClip |-> get_otio_clip(data, context).val]),
                           solve_inputs_to_data(data))
         IN Ok([data |-> solved,
                context |-> solve_hierarchy_context(
                                solved, distribute_shared_data(solved, context))])

\* The creator identifiers CollectClipInstance.process works on
CLIP_CREATOR_IDENTIFIERS ==
    {<<"e","d","i","t","o","r","i","a","l","_","p","l","a","t","e">>, <<"e","d","i","t","o","r","i","a","l","_","p","l","a","t","e","_","a","d","v","a","n","c","e","d">>, <<"e","d","i","t","o","r","i","a","l","_","a","u","d","i","o">>,
     <<"e","d","i","t","o","r","i","a","l","_","a","u","d","i","o","_","a","d","v","a","n","c","e","d">>, <<"e","d","i","t","o","r","i","a","l","_","r","e","v","i","e","w">>, <<"e","d","i","t","o","r","i","a","l","_","m","o","d","e","l","_","a","d","v","a","n","c","e","d">>,
     <<"e","d","i","t","o","r","i","a","l","_","c","a","m","e","r","a","_","a","d","v","a","n","c","e","d">>, <<"e","d","i","t","o","r","i","a","l","_","r","e","n","d","e","r","_","a","d","v","a","n","c","e","d">>,
     <<"e","d","i","t","o","r","i","a","l","_","i","m","a","g","e","_","a","d","v","a","n","c","e","d">>, <<"e","d","i","t","o","r","i","a","l","_","w","o","r","k","f","i","l","e","_","a","d","v","a","n","c","e","d">>}

\* files[0] of Python: the first character of a str, the first item of a list
first_of(files) ==
    IF files.k = "str" THEN PyStr(<<files.v[1]>>) ELSE PyStr(files.v[1])

\* Lines 64-67 of CollectClipInstance.process: new_repre_files
new_repre_files(repre) ==
    IF repre.content_type # "image_sequence" THEN first_of(repre.files)
    ELSE repre.files

\* Lines 56-80: new_repre_data of a representation of prep_representations
\* (stagingDir, the dir_path of the representation, is left out)
new_repre_data(repre) ==
    dict_update(
        [ext |-> repre.ext,
         name |-> repre.name,
         files |-> new_repre_files(repre),
         tags |-> IF repre.content_type = "thumbnail"
                  THEN Append(repre.tags, <<"t","h","u","m","b","n","a","i","l">>)
                  ELSE repre.tags,
         custom_tags |-> repre.custom_tags],
        IF "outputName" \in DOMAIN repre THEN [outputName |-> repre.outputName]
        ELSE EmptyDict)

\* Lines 52-83: instance.data without prep_representations and with the
\* representations made of them, if there are any
with_representations(data) ==
    LET rest == [key \in DOMAIN data \ {"prep_representations"} |-> data[key]]
    IN IF "prep_representations" \notin DOMAIN data \/ data.prep_representations = <<>>
       THEN rest
       ELSE dict_update(rest,
                [representations |->
                    [i \in 1..Len(data.prep_representations) |->
                        new_repre_data(data.prep_representations[i])]])

\* Lines 40-45 of CollectClipInstance.process:
\* context.data["editorialSharedData"][parent_instance_id]
shared_data_of(data, context) ==
    IF \/ "editorialSharedData" \notin DOMAIN context
       \/ data.parent_instance_id \notin DOMAIN context.editorialSharedData
    THEN Raise("KeyError")
    ELSE Ok(context.editorialSharedData[data.parent_instance_id])

\* CollectClipInstance.process: instance.data after the call, or the
\* exception it raises
collect_clip_instance(data, context) ==
    IF data.creator_identifier \notin CLIP_CREATOR_IDENTIFIERS THEN Ok(data)
    ELSE IF shared_data_of(data, context).err # "" THEN shared_data_of(data, context)
    ELSE LET shared == dict_update(
                           [data EXCEPT !.families = Append(data.families, <<"c","l","i","p">>)],
                           shared_data_of(data, context).val)
             sourced == IF "editorialSourcePath" \in DOMAIN context
                        THEN dict_update(
                                 shared,
                                 [editorialSourcePath |-> context.editorialSourcePath,
                                  families |-> Append(shared.families, <<"t","r","i","m","m","i","n","g">>)])
                        ELSE shared
         IN Ok(with_representations(sourced))

(***************************************************************************)
(* Part 3j : the validator and the collector of frame ranges               *)
(*           (ValidateFrameRange.process, CollectVideoData.process)        *)
(***************************************************************************)

\* ValidateFrameRange.check_extensions
check_extensions ==
    {<<"e","x","r">>, <<"d","p","x">>, <<"j","p","g">>, <<"j","p","e","g">>, <<"p","n","g">>, <<"t","i","f","f">>, <<"t","g","a">>, <<"g","i","f">>, <<"s","v","g">>, <<"s","x","r">>}

\* dict.get(key): None without the key
data_get(data, key) == IF key \in DOMAIN data THEN data[key] ELSE None

\* Lines 45-48 of ValidateFrameRange.process: the condition of the message
\* "Skipping for ... task"; re.search on a task that is None raises TypeError
skip_check_matches(skip_timelines_check, task) ==
    IF skip_timelines_check = <<>> THEN Ok(FALSE)
    ELSE IF task.k # "str" THEN Raise("TypeError")
    ELSE Ok(\E i \in DOMAIN skip_timelines_check :
                re_search(skip_timelines_check[i], task.v))

\* Lines 50-59: duration of the task entity if there is one, otherwise of
\* the folder entity
entity_duration(data) ==
    LET entity == IF truthy(data_get(data, "taskEntity")) THEN data.taskEntity
                  ELSE data.folderEntity
        attributes == entity.v.attrib
    IN (attributes.frameEnd - attributes.frameStart + 1)
           + attributes.handleStart + attributes.handleEnd

\* Lines 73-76: the number of files of a representation
frames_of(repre) == IF repre.files.k = "str" THEN 1 ELSE Len(repre.files.v)

\* ValidateFrameRange.process: None, or the exception it raises
validate_frame_range(data, is_active, skip_timelines_check) ==
    IF ~is_active THEN Ok(None)
    ELSE IF \/ truthy(data_get(data, "newHierarchyIntegration"))
            \/ truthy(data_get(data, "newAssetPublishing"))
    THEN Ok(None)
    ELSE IF skip_check_matches(skip_timelines_check, data.task).err # ""
    THEN skip_check_matches(skip_timelines_check, data.task)
    ELSE IF ~truthy(data_get(data, "representations")) THEN Ok(None)
    ELSE LET first_repre == data.representations.v[1]
             ext == replace(first_repre.ext, <<".">>, <<>>)
         IN IF ext = <<>> \/ lower(ext) \notin check_extensions THEN Ok(None)
            ELSE IF frames_of(first_repre) # entity_duration(data)
            THEN Raise("PublishXmlValidationError")
            ELSE Ok(None)

\* timecode_to_frame for a whole number of frames per second: the frame
\* number, or ValueError for a text that is not four numbers
timecode_to_frame(timecode, fps) ==
    LET parts == split(timecode, ":")
    IN IF \/ Len(parts) # 4
          \/ \E i \in DOMAIN parts : py_int(PyStr(parts[i])).err # ""
       THEN Raise("ValueError")
       ELSE LET hours == py_int(PyStr(parts[1])).val.v
                minutes == py_int(PyStr(parts[2])).val.v
                seconds == py_int(PyStr(parts[3])).val.v
                frames == py_int(PyStr(parts[4])).val.v
            IN Ok(frames + seconds * fps + minutes * 60 * fps + hours * 3600 * fps)

\* CollectVideoData.get_video_data, line 272: frame_end
frame_end_of(start_frame, num_frames) == start_frame + num_frames + 1

\* CollectVideoData.get_video_data on the metadata get_image_info_metadata
\* has read from the file
get_video_data(info) ==
    LET num_frames == py_int(IF "nb_frames" \in DOMAIN info THEN info.nb_frames
                             ELSE PyInt(0))
        fps == IF "framerate" \in DOMAIN info THEN info.framerate ELSE float_of(25)
        timecode == data_get(info, "timecode")
        start_frame == IF truthy(timecode) THEN timecode_to_frame(timecode.v, fps.v.ip)
                       ELSE Ok(0)
    IN IF num_frames.err # "" THEN num_frames
       ELSE IF start_frame.err # "" THEN start_frame
       ELSE Ok([frame_start |-> start_frame.val,
                frame_end |-> frame_end_of(start_frame.val, num_frames.val.v),
                fps |-> fps])

\* CollectVideoData.get_frame_data_from_repre_sequence
get_frame_data_from_repre_sequence(data, info) ==
    IF ~truthy(data_get(data, "representations")) THEN Ok(EmptyDict)
    ELSE LET first_repre == data.representations.v[1]
         IN IF "ext" \notin DOMAIN first_repre THEN Ok(EmptyDict)
            ELSE IF <<".">> \o first_repre.ext \notin VIDEO_EXTENSIONS THEN Ok(EmptyDict)
            ELSE IF first_repre.files.k = "list" /\ Len(first_repre.files.v) > 1
            THEN Ok(EmptyDict)
            ELSE IF first_repre.files.k = "list" /\ first_repre.files.v = <<>>
            THEN Raise("IndexError")
            ELSE IF get_video_data(info).err # "" THEN get_video_data(info)
            ELSE Ok([frameStart |-> get_video_data(info).val.frame_start,
                     frameEnd |-> get_video_data(info).val.frame_end,
                     handleStart |-> 0,
                     handleEnd |-> 0,
                     fps |-> get_video_data(info).val.fps])

\* CollectVideoData.process: instance.data after the call, or the exception
\* it raises
collect_video_data(data, is_active, info) ==
    IF ~is_active THEN Ok(data)
    ELSE IF get_frame_data_from_repre_sequence(data, info).err # ""
    THEN get_frame_data_from_repre_sequence(data, info)
    ELSE Ok(dict_update(data, get_frame_data_from_repre_sequence(data, info).val))

(***************************************************************************)
(* Part 4 : the state machine of one CSV ingestion                         *)
(*          (IngestCSV.create -> _process_csv_file)                        *)
(***************************************************************************)

VARIABLES
    csv_dir,                  \* pre_create_data: the directory of the file
    csv_fieldnames,           \* the header of the CSV file as written
    csv_rows,                 \* the rows of the file: sequences of cells
    folder_creation_enabled,  \* folder_creation_config["enabled"]
    pc,                       \* where the creator is
    cursor,                   \* the index of the running loop
    fieldnames,               \* csv_reader.fieldnames
    product_items_by_name,    \* the dict of _get_data_from_csv
    instances,                \* the list of _create_instances_from_csv_data
    csv_instance,             \* the instance of the CSV file itself
    host_instances,           \* what HostContext has stored
    error,                    \* the exception that ended the creator
    val_first,                \* the result of the first of two calls on a value
    fn_pc,                    \* where the call of a single method is
    fn_name,                  \* the method that is called on its own
    fn_args,                  \* the arguments of that call
    fn_result,                \* what the call has returned
    val_pc,                   \* the single-value check: where it is
    val_column,               \* its column of the schema
    val_cell,                 \* its cell: a str, or None for no such key
    val_result,               \* what _get_row_value_with_validation gave
    ed_pc,                    \* the editorial creator: where it is
    ed_args,                  \* its timeline, media folder, presets, switch
    ed_clip_content,          \* clip_content of _get_clip_instances
    ed_clip,                  \* the index of the clip of the track
    ed_preset,                \* the index of the preset of the clip
    ed_parenting,             \* parenting_data of the clip
    ed_instances,             \* what the editorial creators have stored
    ed_error,                 \* the exception that ended the creator
    hc_file,                  \* HostContext: the JSON file, None while absent
    hc_todo,                  \* the calls each caller has still to make
    hc_pc,                    \* where each caller is in its call
    hc_new,                   \* new_data of the call of each caller
    hc_data,                  \* data as _save_data of each caller has read it
    hc_calls,                 \* the instances of the add_instance calls made
    hc_serialised,            \* the callers keep the single-writer discipline
    pub_pc,                   \* publishing: the plugin that runs
    pub_args,                 \* the instances of the context as they were made
    pub_cursor,               \* the index of the instance the plugin is at
    pub_instances,            \* instance.data of the instances of the context
    pub_context,              \* context.data
    pub_error                 \* the exception that ended publishing

csv_vars == <<csv_dir, csv_fieldnames, csv_rows, folder_creation_enabled, pc,
              cursor, fieldnames, product_items_by_name, instances,
              csv_instance, host_instances, error>>

val_vars == <<val_pc, val_column, val_cell, val_result, val_first>>

fn_vars == <<fn_pc, fn_name, fn_args, fn_result>>

ed_vars == <<ed_pc, ed_args, ed_clip_content, ed_clip, ed_preset, ed_parenting,
             ed_instances, ed_error>>

hc_vars == <<hc_file, hc_todo, hc_pc, hc_new, hc_data, hc_calls, hc_serialised>>

pub_vars == <<pub_pc, pub_args, pub_cursor, pub_instances, pub_context, pub_error>>

not_csv_vars == <<val_vars, fn_vars, ed_vars, hc_vars, pub_vars>>

not_val_vars == <<csv_vars, fn_vars, ed_vars, hc_vars, pub_vars>>

not_fn_vars == <<csv_vars, val_vars, ed_vars, hc_vars, pub_vars>>

not_ed_vars == <<csv_vars, val_vars, fn_vars, hc_vars, pub_vars>>

not_hc_vars == <<csv_vars, val_vars, fn_vars, ed_vars, pub_vars>>

not_pub_vars == <<csv_vars, val_vars, fn_vars, ed_vars, hc_vars>>

vars == <<csv_vars, val_vars, fn_vars, ed_vars, hc_vars, pub_vars>>

\* The most rows of a modelled CSV file
MaxRows == 2

\* The most rows of a modelled CSV file where a third row matters
MaxRowsLong == 3

columns_config == [columns |-> DEFAULT_COLUMNS, csv_delimiter |-> ","]

folder_creation_config == folder_creation_defaults

\* The names of the schema's columns in schema order
COLUMN_NAMES == [i \in 1..Len(DEFAULT_COLUMNS) |-> DEFAULT_COLUMNS[i].name]

column_index(name) == CHOOSE i \in 1..Len(COLUMN_NAMES) : COLUMN_NAMES[i] = name

\* A row by the cells of the schema's columns: a.mov of the existing
\* folder /seq/sh1 and its task comp, frames 1001-1010
BASE_ROW == << <<"a",".","m","o","v">>,
              <<"/","s","e","q","/","s","h","1">>,
              <<"c","o","m","p">>,
              <<"p","l","a","t","e">>,
              <<"M","a","i","n">>,
              <<"1">>,
              <<>>,
              <<>>,
              <<"1","0","0","1">>,
              <<"1","0","1","0">>,
              <<"0">>,
              <<"0">>,
              <<"2","4">>,
              <<>>,
              <<"p","r","e","v","i","e","w">>,
              <<>>,
              <<>>,
              <<>>,
              <<>>,
              <<>> >>

\* BASE_ROW with other cells in some columns
row_with(changes) ==
    [i \in 1..Len(BASE_ROW) |->
        IF \E c \in changes : column_index(c[1]) = i
        THEN (CHOOSE c \in changes : column_index(c[1]) = i)[2]
        ELSE BASE_ROW[i]]

\* The rows a modelled file is made of
ROW_CHOICES ==
    { BASE_ROW,
      row_with({<<COL_FILE_PATH, <<"b",".","m","o","v">>>>}),
      row_with({<<COL_FILE_PATH, <<"/","c","s","v","/","a",".","m","o","v">>>>}),
      row_with({<<COL_FILE_PATH, <<"a",".","n","k">>>>}),
      row_with({<<COL_FILE_PATH, <<"s",".","#","#","#","#",".","e","x","r">>>>,
                <<COL_REPRESENTATION, <<"e","x","r">>>>}),
      row_with({<<COL_FOLDER_PATH, <<"/","s","e","q","/","s","h","2">>>>}),
      row_with({<<COL_FOLDER_PATH, <<"s","h","9">>>>}),
      row_with({<<COL_TASK_NAME, <<"p","a","i","n","t">>>>}),
      row_with({<<COL_VARIANT, <<"m","a","i","n">>>>}),
      row_with({<<COL_VERSION, <<"2">>>>}),
      row_with({<<COL_VERSION, <<>> >>}),
      row_with({<<COL_VERSION, <<"1","0","0","0">>>>}),
      row_with({<<COL_FRAME_START, <<>> >>}),
      row_with({<<COL_REPRESENTATION, <<"c","u","t">>>>}),
      row_with({<<COL_VERSION_THUMBNAIL, <<"t",".","j","p","g">>>>}) }

\* The headers a modelled file can have: the schema's names; the same with
\* stray whitespace around and inside a name; without the required FPS
\* column; without the optional Version column
HEADER_STANDARD == COLUMN_NAMES

HEADER_SPACED ==
    [COLUMN_NAMES EXCEPT ![1] = <<" ","F","i","l","e"," "," "," ","P","a","t","h"," ">>]

HEADER_NO_FPS == SelectSeq(COLUMN_NAMES, LAMBDA name : name # COL_FPS)

HEADER_NO_VERSION == SelectSeq(COLUMN_NAMES, LAMBDA name : name # COL_VERSION)

HEADERS == {HEADER_STANDARD, HEADER_SPACED, HEADER_NO_FPS, HEADER_NO_VERSION}

\* The cells of a row as written under a header
cells_under(header, row) ==
    [i \in 1..Len(header) |-> row[column_index(fix_fieldname(header[i]))]]

\* The directories the user can hand over: that of the file, or none
MISSING_DIR == <<"/","g","o","n","e">>

\* The most rows of a modelled file whose header or directory is unusual
MaxRowsUnusual == 1

\* The single-value check at rest
ValIdle ==
    /\ val_pc = "idle"
    /\ val_column = DEFAULT_COLUMNS[1]
    /\ val_cell = None
    /\ val_result = None
    /\ val_first = None

\* The creator is about to be called on a CSV file of at most max_rows
\* rows, at most max_unusual if its header or directory is unusual
InitCsvRows(max_rows, max_unusual) ==
    /\ \E n \in 0..max_rows : \E rows \in [1..n -> ROW_CHOICES] :
       \E header \in HEADERS : \E dir \in {CSV_DIR, MISSING_DIR} :
          /\ (header # HEADER_STANDARD \/ dir # CSV_DIR) => n <= max_unusual
          /\ csv_dir = dir
          /\ csv_fieldnames = header
          /\ csv_rows = [i \in 1..n |-> cells_under(header, rows[i])]
    /\ folder_creation_enabled \in BOOLEAN
    /\ pc = "create"
    /\ cursor = 0
    /\ fieldnames = <<>>
    /\ product_items_by_name = <<>>
    /\ instances = <<>>
    /\ csv_instance = None
    /\ host_instances = <<>>
    /\ error = None

\* No CSV file is being ingested
CsvIdle ==
    /\ csv_dir = CSV_DIR
    /\ csv_fieldnames = <<>>
    /\ csv_rows = <<>>
    /\ folder_creation_enabled = FALSE
    /\ pc = "idle"
    /\ cursor = 0
    /\ fieldnames = <<>>
    /\ product_items_by_name = <<>>
    /\ instances = <<>>
    /\ csv_instance = None
    /\ host_instances = <<>>
    /\ error = None

\* Columns as a studio can set them up besides the shipped ones: optional
\* columns with a default that is not "0", and a text column (Reel) whose
\* pattern "\d" has no anchor at its end
CUSTOM_COLUMNS ==
    { Column(<<"T","a","k","e">>, "number", PyStr(<<"5">>), FALSE, PAT_DIGITS_1_3),
      Column(<<"S","p","e","e","d">>, "decimal", PyStr(<<"0", ".", "0">>), FALSE, PAT_FPS),
      Column(<<"G","a","m","m","a">>, "decimal", PyStr(<<"1", ".", "5">>), FALSE, PAT_FPS),
      Column(<<"R","e","e","l">>, "text", PyStr(<<"0">>), FALSE, R_digit),
      Column(<<"F","i","n","a","l">>, "bool", PyStr(<<"F","a","l","s","e">>), FALSE, PAT_TRUE_FALSE) }

VAL_COLUMNS == Range(DEFAULT_COLUMNS) \cup CUSTOM_COLUMNS

\* The cells a value is read from; None stands for a row without the key
VAL_CELLS ==
    { PyStr(c) : c \in { <<>>, <<"0">>, <<"7">>, <<"0","0","7">>, <<" ","5"," ">>, <<"1","0">>, <<"1","0","0","0">>, <<"-","3">>, <<"x">>, <<"1",".","5">>, <<"2","4",".">>, <<".","5">>, <<"T","r","u","e">>, <<"t","r","u","e">>, <<"F","a","l","s","e">>, <<"a"," ","b">>, <<"/","s","e","q","/","s","h","1">> } }
    \cup {None}

\* _get_row_value_with_validation is about to be called on one cell
InitValue ==
    /\ val_pc = "call"
    /\ val_column \in VAL_COLUMNS
    /\ val_cell \in VAL_CELLS
    /\ val_result = None
    /\ val_first = None

\* No single method is being called
FnIdle ==
    /\ fn_pc = "idle"
    /\ fn_name = "none"
    /\ fn_args = <<>>
    /\ fn_result = None

\* Folder creation settings as a studio can set them up: the shipped rules;
\* rules of which two match the same names; no rules at all
FOLDER_CREATION_CONFIGS ==
    { folder_creation_defaults,
      [folder_creation_defaults EXCEPT !.folder_type_regexes =
          << [regex |-> R_seq(<<R_word(<<"s">>), R_star(R_any)>>), folder_type |-> "Sequence"],
             [regex |-> PAT_SH, folder_type |-> "Shot"] >>],
      [folder_creation_defaults EXCEPT !.folder_type_regexes = <<>>,
                                       !.folder_create_type = "Asset"] }

\* Folder paths of products whose folder is not in the database
MISSING_FOLDER_PATHS ==
    { <<"s","h","9">>,
      <<"/","s","h","9">>,
      <<"/","s","e","q","/","s","h","9">>,
      <<"/","s","h","o","w","s","/","s","h","9">>,
      <<"/","s","h","o","w","s","/","s","e","q","2","/","s","h","9">>,
      <<"/","e","p","1","/","s","e","q","2","/","s","h","9">>,
      <<"/","e","p","1","/","x","s","h","/","s","h","e","l","f","/","a">>,
      <<"l","i","b","/","s","h","e","l","f","/","a">>,
      <<"/","/","s","e","q","/","s","h","9">>,
      <<"/","s","e","q","/","/","s","h","9">>,
      <<"/","s","e","q","/","s","h","9","/">> }

\* The cells of the Representation Tags column a row is read with: empty,
\* one tag as the configured tags have it, one tag in capitals or between
\* spaces, several tags
TAGS_CELLS ==
    { <<>>,
      <<"r","e","v","i","e","w">>,
      <<"R","e","v","i","e","w">>,
      <<" ","r","e","v","i","e","w"," ">>,
      <<"r","e","v","i","e","w",";","b","u","r","n","i","n">>,
      <<"R","e","v","i","e","w"," ",";"," ","B","u","r","n","I","n">>,
      <<"r","e","v","i","e","w",";">>,
      <<"r","e","v","i","e","w",",","b","u","r","n","i","n">> }

\* Representation settings with the shipped delimiter ";" and with ","
REPRE_CONFIGS ==
    { representations_config,
      [representations_config EXCEPT !.tags_delimiter = ","] }

\* The clips _get_timing_data is called on: the range in the track, and the
\* source range of the media before the range in the track is restored
TIMING_CLIPS ==
    [range_in_parent : [start_time : {0, 100}, duration : {1, 2, 50}],
     source_range : [start_time : {86400}, duration : {50}]]

\* timeline_offset and track_start_frame of the calls
TIMING_OFFSETS == {0 - 5, 0, 10}

\* workfile_start_frame of the calls
WORKFILE_START_FRAMES == {None, PyInt(0), PyInt(1001)}

\* The tracks whose start frame is computed: without a source range and with
\* one that starts before, at and after frame 0
TRACKS ==
    {[source_range |-> None]}
    \cup {[source_range |-> [start_time |-> start_time, duration |-> 100]] :
             start_time \in {0 - 10, 0, 5, 86400}}

\* The values of the attribute timeline_frame_start of the creator
TIMELINE_FRAME_STARTS == {0, 5, 86400, 900000}

\* CreateContext.get_folder_entity(folder_path): the folder of the project
\* with that path, None if there is none
get_folder_entity(folder_path) ==
    IF get_folders({folder_path}) = {} THEN None
    ELSE [k |-> "entity", v |-> CHOOSE f \in get_folders({folder_path}) : TRUE]

\* CreateContext.get_task_entity(folder_path, task_name): the task of that
\* name of the folder, None without a name, a folder or such a task
get_task_entity(folder_path, task_name) ==
    IF task_name = None \/ get_folder_entity(folder_path) = None THEN None
    ELSE IF get_tasks({get_folder_entity(folder_path).v.id}, {task_name.v}) = {} THEN None
    ELSE [k |-> "entity",
          v |-> CHOOSE t \in get_tasks({get_folder_entity(folder_path).v.id},
                                       {task_name.v}) : TRUE]

\* csvpublish (lines 29-88).  The ValueError of lines 46-50 and that of lines
\* 57-61 are made and not raised, so the entities, found or not, go on to
\* create_context.create; what comes back is the exception that call or the
\* publishing has raised, if any.  pyblish.util.publish raises nothing for a
\* plugin that fails.
csvpublish(folder_path, task_name, create_error) ==
    [folder_entity |-> get_folder_entity(folder_path),
     task_entity |-> get_task_entity(folder_path, task_name),
     create_called |-> TRUE,
     published |-> create_error = "",
     err |-> create_error]

\* The folder paths and task names csvpublish is called with
PUBLISH_FOLDER_PATHS == {<<"/","s","e","q","/","s","h","1">>, <<"/","s","e","q">>, <<"/","s","e","q","/","s","h","9">>}

PUBLISH_TASK_NAMES == {None, PyStr(<<"c","o","m","p">>), PyStr(<<"p","a","i","n","t">>)}

\* A single method is about to be called on arguments of its own
InitFn ==
    /\ fn_pc = "call"
    /\ fn_result = None
    /\ \/ /\ fn_name = "_compute_parents_data"
          /\ fn_args \in [folder_path : {PyStr(path) : path \in MISSING_FOLDER_PATHS},
                          folder_creation_config : FOLDER_CREATION_CONFIGS]
       \/ /\ fn_name = "RepreItem.from_csv_row"
          /\ fn_args \in [repre_tags : {PyStr(cell) : cell \in TAGS_CELLS},
                          repre_config : REPRE_CONFIGS]
       \/ /\ fn_name = "_get_timing_data"
          /\ fn_args \in [otio_clip : TIMING_CLIPS,
                          timeline_offset : TIMING_OFFSETS,
                          track_start_frame : TIMING_OFFSETS,
                          workfile_start_frame : WORKFILE_START_FRAMES]
       \/ /\ fn_name = "csvpublish"
          /\ fn_args \in [folder_path : PUBLISH_FOLDER_PATHS,
                          task_name : PUBLISH_TASK_NAMES]
       \/ /\ fn_name = "track_start_frame"
          /\ fn_args \in [track : TRACKS,
                          timeline_frame_start : TIMELINE_FRAME_STARTS]


\* str.capitalize()
capitalize(s) ==
    [i \in 1..Len(s) |-> IF i = 1 THEN upper_char(s[i]) ELSE lower_char(s[i])]

\* EditorialAdvancedCreator.get_product_presets_with_names: the preset of the
\* settings with its product name
product_preset_with_name(preset) ==
    dict_update(preset,
                [product_name |-> preset.product_type \o capitalize(preset.variant)])

\* A representation rule of the shipped preset: videos, tagged for review
VIDEO_REPRESENTATION ==
    [name |-> <<"r","e","f","e","r","e","n","c","e">>, content_type |-> "video",
     extensions |-> <<<<"m","o","v">>, <<"m","p","4">>>>, patterns |-> <<R_star(R_any)>>,
     tags |-> <<<<"r","e","v","i","e","w">>>>, custom_tags |-> <<>>]

\* A representation rule for the thumbnails of a product
THUMBNAIL_REPRESENTATION ==
    [name |-> <<"t","h","u","m","b","n","a","i","l">>, content_type |-> "thumbnail",
     extensions |-> <<<<"j","p","g">>, <<"p","n","g">>>>, patterns |-> <<>>,
     tags |-> <<>>, custom_tags |-> <<>>]

\* A representation rule for sound files
AUDIO_REPRESENTATION ==
    [name |-> <<"w","a","v">>, content_type |-> "audio",
     extensions |-> <<<<".","w","a","v">>>>, patterns |-> <<>>,
     tags |-> <<>>, custom_tags |-> <<>>]

\* ProductTypeAdvancedPresetItem.locked: the version of a preset with locked
\* versioning, as shipped
LockedVersion == 1

\* The product preset "plateReference" with one of the versioning types
plate_preset(versioning_type) ==
    product_preset_with_name(
        [product_type |-> <<"p","l","a","t","e">>, variant |-> <<"R","e","f","e","r","e","n","c","e">>,
         versioning_type |-> versioning_type, locked |-> LockedVersion,
         representations |-> <<VIDEO_REPRESENTATION, THUMBNAIL_REPRESENTATION>>])

\* The product preset "audioMain", versions counted up by the publisher
AUDIO_PRESET ==
    product_preset_with_name(
        [product_type |-> <<"a","u","d","i","o">>, variant |-> <<"m","a","i","n">>,
         versioning_type |-> "incremental", locked |-> LockedVersion,
         representations |-> <<AUDIO_REPRESENTATION>>])

\* A representation rule for script files, tagged for review
SCRIPT_REPRESENTATION ==
    [name |-> <<"n","k">>, content_type |-> "workfile",
     extensions |-> <<<<"n","k">>>>, patterns |-> <<>>,
     tags |-> <<<<"r","e","v","i","e","w">>>>, custom_tags |-> <<>>]

\* The product preset "workfileMain"
WORKFILE_PRESET ==
    product_preset_with_name(
        [product_type |-> <<"w","o","r","k","f","i","l","e">>, variant |-> <<"m","a","i","n">>,
         versioning_type |-> "incremental", locked |-> LockedVersion,
         representations |-> <<SCRIPT_REPRESENTATION>>])

\* The enabled presets of a run: none, one, two
ED_PRESETS ==
    { <<>>,
      <<plate_preset("from_file")>>,
      <<plate_preset("locked"), AUDIO_PRESET>>,
      <<plate_preset("incremental"), WORKFILE_PRESET>> }

\* What the folder of the clip "sh1" holds when it is there
SH1_FOLDERS ==
    { <<<<"p","l","a","t","e","R","e","f","e","r","e","n","c","e",".","m","o","v">>>>,
      <<<<"p","l","a","t","e","R","e","f","e","r","e","n","c","e","_","v","0","0","3",".","m","o","v">>>>,
      <<<<"p","l","a","t","e","R","e","f","e","r","e","n","c","e",".","m","o","v">>, <<"p","l","a","t","e","R","e","f","e","r","e","n","c","e","_","v","0","0","3",".","m","o","v">>>>,
      <<<<"p","l","a","t","e","R","e","f","e","r","e","n","c","e",".","t","h","u","m","b",".","j","p","g">>>>,
      <<<<"p","l","a","t","e","R","e","f","e","r","e","n","c","e",".","t","h","u","m","b",".","j","p","g">>, <<"p","l","a","t","e","R","e","f","e","r","e","n","c","e",".","t","h","u","m","b",".","p","n","g">>>>,
      <<<<"n","o","t","e","s",".","t","x","t">>>>,
      <<<<"p","l","a","t","e","R","e","f","e","r","e","n","c","e",".","l","e","f","t",".","m","o","v">>, <<"p","l","a","t","e","R","e","f","e","r","e","n","c","e",".","r","i","g","h","t",".","m","o","v">>>>,
      <<<<"p","l","a","t","e","R","e","f","e","r","e","n","c","e",".","m","o","v">>, <<"p","l","a","t","e","R","e","f","e","r","e","n","c","e",".","t","h","u","m","b",".","j","p","g">>, <<"a","u","d","i","o","M","a","i","n",".","w","a","v">>,
        <<"w","o","r","k","f","i","l","e","M","a","i","n",".","n","k">>>> }

\* What the folder of the clip "sh2" holds when it is there
SH2_FOLDERS == { <<<<"p","l","a","t","e","R","e","f","e","r","e","n","c","e",".","m","o","v">>>> }

\* The media folder with the two clip folders, each there (a list of files)
\* or not (None)
media_folder(sh1, sh2) ==
    [folder \in {name \in {<<"s","h","1">>} : sh1 # None} \cup {name \in {<<"s","h","2">>} : sh2 # None} |->
        IF folder = <<"s","h","1">> THEN sh1.v ELSE sh2.v]

ED_MEDIA ==
    { media_folder(sh1, sh2) :
         sh1 \in {None} \cup {PyList(files) : files \in SH1_FOLDERS},
         sh2 \in {None} \cup {PyList(files) : files \in SH2_FOLDERS} }

\* The kinds of items of a video track: clips named sh1 and sh2, a clip
\* without a name, a gap, a clip of generated media, a transition.  The
\* source range is the one of the media, before the timeline one is restored.
ED_ITEMS ==
    { [name |-> PyStr(<<"s","h","1">>), schema |-> "Clip", generator_reference |-> FALSE,
       source_range |-> [start_time |-> 86400, duration |-> 50]],
      [name |-> PyStr(<<"s","h","2">>), schema |-> "Clip", generator_reference |-> FALSE,
       source_range |-> [start_time |-> 0, duration |-> 1]],
      [name |-> None, schema |-> "Clip", generator_reference |-> FALSE,
       source_range |-> [start_time |-> 0, duration |-> 24]],
      [name |-> PyStr(<<"g","a","p">>), schema |-> "Gap", generator_reference |-> FALSE,
       source_range |-> [start_time |-> 0, duration |-> 10]],
      [name |-> PyStr(<<"b","l","a","c","k">>), schema |-> "Clip", generator_reference |-> TRUE,
       source_range |-> [start_time |-> 0, duration |-> 10]],
      [name |-> PyStr(<<"d","i","s","s","o","l","v","e">>), schema |-> "Transition", generator_reference |-> FALSE,
       source_range |-> [start_time |-> 0, duration |-> 10]] }

RECURSIVE duration_of(_)
\* The frames a sequence of items takes on its track
duration_of(items) ==
    IF items = <<>> THEN 0
    ELSE items[Len(items)].source_range.duration
         + duration_of(SubSeq(items, 1, Len(items) - 1))

\* track.find_clips(): the items of the track, each with its range in the
\* track, which begins where the items before it end
track_clips(items) ==
    [i \in 1..Len(items) |->
        dict_update(items[i],
                    [range_in_parent |->
                        [start_time |-> duration_of(SubSeq(items, 1, i - 1)),
                         duration |-> items[i].source_range.duration]])]

\* The most items of the track of a modelled timeline
MaxClips == 2

\* The tracks of the modelled timelines
ED_TRACKS == UNION {[1..n -> ED_ITEMS] : n \in 0..MaxClips}

\* The folder the creator runs in
ED_FOLDER_ENTITY == [path |-> <<"/","s","h","o","w","s","/","s","e","q">>]

\* clip_instance_properties: the attributes of the pre-create dialog
ED_PROPERTIES ==
    [handle_start |-> 0, handle_end |-> 0, timeline_offset |-> 0,
     workfile_start_frame |-> PyInt(1001), fps |-> 25, variant |-> <<"M","a","i","n">>]

\* The track of the modelled timelines: it has no source range
ED_TRACK == [source_range |-> None]

\* Lines 615-622: base_instance_data of a clip of the track
base_instance_data_of(otio_clip) ==
    get_base_instance_data(restore_otio_source_range(otio_clip), ED_PROPERTIES,
                           track_start_frame_of(ED_TRACK, 0), ED_FOLDER_ENTITY)

\* The editorial creator is not running
EdIdle ==
    /\ ed_pc = "idle"
    /\ ed_args = <<>>
    /\ ed_clip_content = <<>>
    /\ ed_clip = 0
    /\ ed_preset = 0
    /\ ed_parenting = [instance_label |-> None, instance_id |-> None]
    /\ ed_instances = <<>>
    /\ ed_error = ""

\* EditorialAdvancedCreator.create is about to work on one timeline with one
\* video track that has no source range, and on one media folder
InitEditorial ==
    /\ ed_pc = "create"
    /\ ed_args \in [clips : {track_clips(items) : items \in ED_TRACKS},
                    media : ED_MEDIA,
                    product_type_presets : ED_PRESETS,
                    ignore_clip_no_content : BOOLEAN]
    /\ ed_clip_content = <<>>
    /\ ed_clip = 0
    /\ ed_preset = 0
    /\ ed_parenting = [instance_label |-> None, instance_id |-> None]
    /\ ed_instances = <<>>
    /\ ed_error = ""

\* The callers of HostContext: two, as the creators and the publisher window
\* of one process
Callers == {1, 2}

\* The most calls one caller makes
MaxCalls == 2

\* A call of HostContext.add_instance or of HostContext.save_context_data
\* with its argument
HC_CALLS ==
    [op : {"add_instance"}, arg : {"a", "b"}]
    \cup [op : {"save_context_data"}, arg : {"x", "y"}]

\* The calls a caller makes, one after the other
HC_PROGRAMMES == UNION {[1..n -> HC_CALLS] : n \in 0..MaxCalls}

\* HostContext is not in use
HcIdle ==
    /\ hc_file = None
    /\ hc_todo = [c \in Callers |-> <<>>]
    /\ hc_pc = [c \in Callers |-> "ready"]
    /\ hc_new = [c \in Callers |-> None]
    /\ hc_data = [c \in Callers |-> None]
    /\ hc_calls = <<>>
    /\ hc_serialised = TRUE

\* The JSON file of HostContext does not exist yet (get_context_json_path
\* makes a name, not a file); each caller has its calls to make, and the
\* callers keep the single-writer discipline or do not
InitHostContext ==
    /\ hc_file = None
    /\ hc_todo \in [Callers -> HC_PROGRAMMES]
    /\ \E c \in Callers : hc_todo[c] # <<>>
    /\ hc_pc = [c \in Callers |-> "ready"]
    /\ hc_new = [c \in Callers |-> None]
    /\ hc_data = [c \in Callers |-> None]
    /\ hc_calls = <<>>
    /\ hc_serialised \in BOOLEAN

\* The clip of the items of a track that has the name
ED_CLIP(name) ==
    CHOOSE item \in ED_ITEMS : item.name = PyStr(name) /\ item.schema = "Clip"

\* The timelines that are published: two clips with names of their own, and
\* the same clip used twice
PUB_TIMELINES ==
    {track_clips(<<ED_CLIP(<<"s","h","1">>), ED_CLIP(<<"s","h","2">>)>>),
     track_clips(<<ED_CLIP(<<"s","h","1">>), ED_CLIP(<<"s","h","1">>)>>)}

\* What the folder of the clip "sh1" holds when the timeline is published
PUB_FOLDERS ==
    {<<<<"p","l","a","t","e","R","e","f","e","r","e","n","c","e",".","m","o","v">>>>, <<<<"p","l","a","t","e","R","e","f","e","r","e","n","c","e",".","m","o","v">>, <<"p","l","a","t","e","R","e","f","e","r","e","n","c","e","_","v","0","0","3",".","m","o","v">>>>}

\* The instances the editorial creator stores for a clip: the shot instance
\* (lines 615-633) and the product instances of the preset (lines 638-645)
clip_instances(otio_clip, files, product_preset, first_id) ==
    LET shot == clip_creator_create(
                    shot_instance_data(restore_otio_source_range(otio_clip),
                                       base_instance_data_of(otio_clip)),
                    new_instance_id(first_id))
    IN <<shot>> \o
       product_instances(product_preset, base_instance_data_of(otio_clip),
                         parenting_data_of(shot),
                         group_representations(
                             <<>>, matched_product_items(<<product_preset>>, files),
                             product_preset),
                         first_id + 1)

\* The instances the editorial creator stores for a timeline of two clips
created_instances(clips, sh1_files) ==
    LET files_of(clip) == IF clip.name.v = <<"s","h","1">> THEN sh1_files
                          ELSE CHOOSE files \in SH2_FOLDERS : TRUE
        first == clip_instances(clips[1], files_of(clips[1]), plate_preset("locked"), 1)
    IN first \o clip_instances(clips[2], files_of(clips[2]), plate_preset("locked"),
                               Len(first) + 1)

\* parents of the shot metadata for the folder the creator runs in
SHOT_PARENTS ==
    <<[entity_type |-> <<"f","o","l","d","e","r">>, folder_type |-> <<"F","o","l","d","e","r">>, entity_name |-> <<"s","h","o","w","s">>],
      [entity_type |-> <<"f","o","l","d","e","r">>, folder_type |-> <<"S","e","q","u","e","n","c","e">>, entity_name |-> <<"s","e","q">>]>>

\* instance.data of a created instance in the publish context: the stored
\* data with the identifier of its creator and the hierarchy of its shot
instance_data_of(created, active) ==
    dict_update(created,
        [creator_identifier |->
            <<"e","d","i","t","o","r","i","a","l","_">> \o created.productType \o <<"_","a","d","v","a","n","c","e","d">>,
         families |-> <<>>,
         active |-> active,
         parents |-> SHOT_PARENTS,
         tasks |-> EmptyDict])

\* What the user has done with a created instance before publishing
INSTANCE_CHOICES == {"removed", "inactive", "active"}

\* The instances of the publish context: those the user has not removed
context_instances(created, choices) ==
    LET kept == SelectSeq([i \in DOMAIN created |-> i],
                          LAMBDA i : choices[i] # "removed")
    IN [j \in DOMAIN kept |->
           instance_data_of(created[kept[j]], choices[kept[j]] = "active")]

\* Nothing is published
PubIdle ==
    /\ pub_pc = "idle"
    /\ pub_args = <<>>
    /\ pub_cursor = 0
    /\ pub_instances = <<>>
    /\ pub_context = EmptyDict
    /\ pub_error = ""

\* Publishing is about to run the collectors on the instances the editorial
\* creator has made of a timeline, some removed or set inactive by the user
InitPublish ==
    /\ pub_pc = "CollectShotInstance"
    /\ \E clips \in PUB_TIMELINES, sh1_files \in PUB_FOLDERS :
          \E choices \in [DOMAIN created_instances(clips, sh1_files) -> INSTANCE_CHOICES] :
              pub_args = [otioTimeline |-> [i \in DOMAIN clips |->
                                               restore_otio_source_range(clips[i])],
                          instances |-> context_instances(
                                            created_instances(clips, sh1_files), choices)]
    /\ pub_cursor = 1
    /\ pub_instances = pub_args.instances
    /\ pub_context = [otioTimeline |-> pub_args.otioTimeline]
    /\ pub_error = ""

\* The ids of created instances (uuid4 in the code, one for each instance)
INSTANCE_IDS == {1, 2, 3}

\* What data_to_store() of an instance can be: with or without a task
INSTANCE_DATA ==
    [instance_id : INSTANCE_IDS, variant : {"a", "b"}]
    \cup [instance_id : INSTANCE_IDS, variant : {"a"}, task : {"t"}]

\* At most this many instances are stored
MaxStored == 3

\* At most this many instances are updated or removed by one call
MaxUpdates == 2

\* Lists of at most n instances, no two of them with the same id
instance_lists(n) ==
    {list \in UNION {[1..len -> INSTANCE_DATA] : len \in 0..n} :
        \A i, j \in DOMAIN list : list[i].instance_id = list[j].instance_id => i = j}

\* The file of HostContext: not there, or with stored instances and context
STORED_FILES ==
    {None} \cup
    {[k |-> "json", v |-> [instances |-> list, context |-> "x"]] :
        list \in instance_lists(MaxStored)}

\* What remove_instances is given: one instance or a list of instances
REMOVE_ARGS ==
    [instance_id : INSTANCE_IDS, variant : {"a"}] \cup
    {PyList(list) :
        list \in UNION {[1..len -> [instance_id : INSTANCE_IDS, variant : {"a"}]] :
                           len \in 0..MaxUpdates}}

\* update_instances or remove_instances is about to be called by the only
\* caller of HostContext
InitPipeline ==
    /\ fn_pc = "call"
    /\ fn_result = None
    /\ \/ /\ fn_name = "update_instances"
          /\ fn_args \in [file : STORED_FILES,
                          update_list : instance_lists(MaxUpdates)]
       \/ /\ fn_name = "remove_instances"
          /\ fn_args \in [file : STORED_FILES, instances : REMOVE_ARGS]

\* attrib of an entity with a frame range and handles
entity_with(frame_start, frame_end, handle_start, handle_end) ==
    PyDict([attrib |-> [frameStart |-> frame_start, frameEnd |-> frame_end,
                        handleStart |-> handle_start, handleEnd |-> handle_end]])

\* The first representations of the validated instances: one file as a str
\* or two files as a list, with extensions that are checked or not
VALIDATED_REPRESENTATIONS ==
    [ext : {<<"e","x","r">>, <<".","E","X","R">>, <<"m","o","v">>, <<>>},
     files : {PyStr(<<"p","l","a","t","e",".","1","0","0","1",".","e","x","r">>),
              PyList(<<<<"p","l","a","t","e",".","1","0","0","1",".","e","x","r">>, <<"p","l","a","t","e",".","1","0","0","2",".","e","x","r">>>>)}]

\* instance.data of the instances ValidateFrameRange is run on
VALIDATED_INSTANCES ==
    {dict_update(dict_update(flags, entities), representations) :
        flags \in [task : {PyStr(<<"c","o","m","p">>), PyStr(<<"p","a","i","n","t">>), None},
                   newHierarchyIntegration : {PyBool(TRUE), None},
                   newAssetPublishing : {None}]
                  \cup [task : {PyStr(<<"c","o","m","p">>)},
                        newHierarchyIntegration : {None},
                        newAssetPublishing : {PyBool(TRUE)}],
        entities \in [taskEntity : {None, entity_with(1001, 1002, 0, 0)},
                      folderEntity : {entity_with(1001, 1001, 1, 1)}],
        representations \in {EmptyDict, [representations |-> PyList(<<>>)]}
                            \cup {[representations |-> PyList(<<repre>>)] :
                                     repre \in VALIDATED_REPRESENTATIONS}}

\* skip_timelines_check of the settings: nothing, or the tasks named comp
SKIP_TIMELINES_CHECKS == {<<>>, <<R_seq(<<R_bol, R_word(<<"c","o","m","p">>)>>)>>}

\* ValidateFrameRange.process is about to be called on an instance
InitValidateFrameRange ==
    /\ fn_pc = "call"
    /\ fn_result = None
    /\ fn_name = "ValidateFrameRange.process"
    /\ fn_args \in [data : VALIDATED_INSTANCES,
                    is_active : BOOLEAN,
                    skip_timelines_check : SKIP_TIMELINES_CHECKS]

\* instance.data of the instances CollectVideoData is run on: without
\* representations, or with a first representation of one or two files
VIDEO_INSTANCES ==
    {[folderPath |-> <<"/","s","e","q","/","s","h","1">>]}
    \cup {[folderPath |-> <<"/","s","e","q","/","s","h","1">>, representations |-> PyList(<<repre>>)] :
             repre \in [ext : {<<"m","o","v">>, <<"e","x","r">>},
                        files : {PyStr(<<"a",".","m","o","v">>), PyList(<<<<"a",".","m","o","v">>>>),
                                 PyList(<<<<"a",".","m","o","v">>, <<"b",".","m","o","v">>>>)}]
                       \cup [files : {PyStr(<<"a",".","m","o","v">>)}]}

\* What get_image_info_metadata reads from a video file: the number of
\* frames, the timecode and the frames per second, each there or not
VIDEO_INFOS ==
    {dict_update(dict_update(nb_frames, timecode), framerate) :
        nb_frames \in {EmptyDict, [nb_frames |-> PyStr(<<"1">>)], [nb_frames |-> PyStr(<<"4","8">>)]},
        timecode \in {EmptyDict, [timecode |-> PyStr(<<"0","0",":","0","0",":","0","1",":","0","0">>)],
                      [timecode |-> PyStr(<<"0","1",":","0","0",":","0","0",":","1","2">>)]},
        framerate \in {EmptyDict, [framerate |-> float_of(24)]}}

\* CollectVideoData.process is about to be called on an instance
InitCollectVideoData ==
    /\ fn_pc = "call"
    /\ fn_result = None
    /\ fn_name = "CollectVideoData.process"
    /\ fn_args \in [data : VIDEO_INSTANCES, is_active : BOOLEAN, info : VIDEO_INFOS]

\* The states in which only a single method is called
InitSingle ==
    \/ InitValue /\ CsvIdle /\ FnIdle /\ EdIdle /\ HcIdle /\ PubIdle
    \/ InitFn /\ CsvIdle /\ ValIdle /\ EdIdle /\ HcIdle /\ PubIdle
    \/ InitEditorial /\ CsvIdle /\ ValIdle /\ FnIdle /\ HcIdle /\ PubIdle
    \/ InitHostContext /\ CsvIdle /\ ValIdle /\ FnIdle /\ EdIdle /\ PubIdle
    \/ InitPublish /\ CsvIdle /\ ValIdle /\ FnIdle /\ EdIdle /\ HcIdle
    \/ InitPipeline /\ CsvIdle /\ ValIdle /\ EdIdle /\ HcIdle /\ PubIdle
    \/ InitValidateFrameRange /\ CsvIdle /\ ValIdle /\ EdIdle /\ HcIdle /\ PubIdle
    \/ InitCollectVideoData /\ CsvIdle /\ ValIdle /\ EdIdle /\ HcIdle /\ PubIdle

Init ==
    (InitCsvRows(MaxRows, MaxRowsUnusual) /\ ValIdle /\ FnIdle /\ EdIdle /\ HcIdle /\ PubIdle)
    \/ InitSingle

\* The same with files of up to MaxRowsLong rows
InitLong ==
    (InitCsvRows(MaxRowsLong, MaxRowsUnusual) /\ ValIdle /\ FnIdle /\ EdIdle /\ HcIdle /\ PubIdle)
    \/ InitSingle

\* IngestCSV.create and the head of _process_csv_file (lines 309-374): the
\* directory must exist; the instance of the CSV file is made, not stored
Create ==
    /\ pc = "create"
    /\ IF ~path_exists(csv_dir)
       THEN /\ pc' = "error"
            /\ error' = Raise("CreatorError: directory does not exist")
            /\ UNCHANGED csv_instance
       ELSE /\ pc' = "check_columns"
            /\ csv_instance' = make_csv_instance(CSV_PRODUCT_NAME, CSV_INSTANCE_DATA,
                                                 csv_dir, CSV_FILENAME)
            /\ UNCHANGED error
    /\ UNCHANGED <<not_csv_vars, csv_dir, csv_fieldnames, csv_rows,
                   folder_creation_enabled,
                   cursor, fieldnames, product_items_by_name, instances,
                   host_instances>>

\* _get_data_from_csv, lines 484-519: the header is read, its names are
\* fixed and the required columns are looked for
CheckColumns ==
    /\ pc = "check_columns"
    /\ LET all_columns == [i \in 1..Len(csv_fieldnames) |->
                              fix_fieldname(csv_fieldnames[i])]
       IN /\ fieldnames' = all_columns
          /\ IF missing_required_columns(columns_config, all_columns) # {}
             THEN /\ pc' = "error"
                  /\ error' = Raise("CreatorError: missing required columns")
                  /\ UNCHANGED cursor
             ELSE /\ pc' = IF csv_rows = <<>> THEN "resolve_entities" ELSE "read_row"
                  /\ cursor' = 1
                  /\ UNCHANGED error
    /\ UNCHANGED <<not_csv_vars, csv_dir, csv_fieldnames, csv_rows,
                   folder_creation_enabled,
                   product_items_by_name, instances, csv_instance, host_instances>>

\* _get_data_from_csv, lines 522-536: one row of the file
ReadRow ==
    /\ pc = "read_row"
    /\ LET added == add_row(columns_config, representations_config,
                            product_items_by_name,
                            dict_row(fieldnames, csv_rows[cursor]), cursor + 1)
       IN IF added.err # ""
          THEN /\ pc' = "error"
               /\ error' = added
               /\ UNCHANGED <<cursor, product_items_by_name>>
          ELSE /\ product_items_by_name' = added.val
               /\ cursor' = cursor + 1
               /\ pc' = IF cursor = Len(csv_rows) THEN "resolve_entities" ELSE "read_row"
               /\ UNCHANGED error
    /\ UNCHANGED <<not_csv_vars, csv_dir, csv_fieldnames, csv_rows,
                   folder_creation_enabled,
                   fieldnames, instances, csv_instance, host_instances>>

\* _get_data_from_csv, lines 538-605: folders and tasks
ResolveEntities ==
    /\ pc = "resolve_entities"
    /\ LET resolved == resolve_entities(folder_creation_config, folder_creation_enabled,
                                        product_items_by_name)
       IN IF resolved.err # ""
          THEN /\ pc' = "error"
               /\ error' = resolved
               /\ UNCHANGED product_items_by_name
          ELSE /\ product_items_by_name' = resolved.val
               /\ pc' = "check_duplicates"
               /\ UNCHANGED error
    /\ UNCHANGED <<not_csv_vars, csv_dir, csv_fieldnames, csv_rows,
                   folder_creation_enabled,
                   cursor, fieldnames, instances, csv_instance, host_instances>>

\* _get_data_from_csv, lines 607-631: paths are resolved, duplicates refused
CheckDuplicates ==
    /\ pc = "check_duplicates"
    /\ LET checked == check_duplicates(csv_dir, product_items_by_name)
       IN IF checked.err # ""
          THEN /\ pc' = "error"
               /\ error' = checked
               /\ UNCHANGED <<cursor, product_items_by_name>>
          ELSE /\ product_items_by_name' = checked.val
               /\ cursor' = 1
               /\ pc' = IF checked.val = <<>> THEN "store_csv_instance"
                        ELSE "create_instance"
               /\ UNCHANGED error
    /\ UNCHANGED <<not_csv_vars, csv_dir, csv_fieldnames, csv_rows,
                   folder_creation_enabled,
                   fieldnames, instances, csv_instance, host_instances>>

\* CreateInstance if each instance were stored as soon as it is built
CreateInstance_StoresAtOnce ==
    /\ pc = "create_instance"
    /\ LET created == create_instance(folder_creation_config, representations_config,
                                      product_items_by_name[cursor].item)
       IN IF created.err # ""
          THEN /\ pc' = "error"
               /\ error' = created
               /\ UNCHANGED <<cursor, instances, host_instances>>
          ELSE /\ instances' = Append(instances, created.val)
               /\ host_instances' = add_instance(host_instances, created.val)
               /\ IF cursor = Len(product_items_by_name)
                  THEN pc' = "store_instance" /\ cursor' = 1
                  ELSE pc' = "create_instance" /\ cursor' = cursor + 1
               /\ UNCHANGED error
    /\ UNCHANGED <<not_csv_vars, csv_dir, csv_fieldnames, csv_rows,
                   folder_creation_enabled, fieldnames, product_items_by_name,
                   csv_instance>>

\* _create_instances_from_csv_data, lines 888-1010: the instance of one
\* product item is built and kept in the local list
CreateInstance ==
    /\ pc = "create_instance"
    /\ LET created == create_instance(folder_creation_config, representations_config,
                                      product_items_by_name[cursor].item)
       IN IF created.err # ""
          THEN /\ pc' = "error"
               /\ error' = created
               /\ UNCHANGED <<cursor, instances>>
          ELSE /\ instances' = Append(instances, created.val)
               /\ IF cursor = Len(product_items_by_name)
                  THEN pc' = "store_instance" /\ cursor' = 1
                  ELSE pc' = "create_instance" /\ cursor' = cursor + 1
               /\ UNCHANGED error
    /\ UNCHANGED <<not_csv_vars, csv_dir, csv_fieldnames, csv_rows,
                   folder_creation_enabled,
                   fieldnames, product_items_by_name, csv_instance, host_instances>>

\* _process_csv_file, lines 378-379: one built instance is stored
StoreInstance ==
    /\ pc = "store_instance"
    /\ host_instances' = add_instance(host_instances, instances[cursor])
    /\ IF cursor = Len(instances)
       THEN pc' = "store_csv_instance" /\ cursor' = 0
       ELSE pc' = "store_instance" /\ cursor' = cursor + 1
    /\ UNCHANGED <<not_csv_vars, csv_dir, csv_fieldnames, csv_rows,
                   folder_creation_enabled,
                   fieldnames, product_items_by_name, instances, csv_instance, error>>

\* _process_csv_file, line 380: the instance of the CSV file is stored last
StoreCsvInstance ==
    /\ pc = "store_csv_instance"
    /\ host_instances' = add_instance(host_instances, csv_instance)
    /\ pc' = "done"
    /\ UNCHANGED <<not_csv_vars, csv_dir, csv_fieldnames, csv_rows,
                   folder_creation_enabled,
                   cursor, fieldnames, product_items_by_name, instances,
                   csv_instance, error>>

\* The row of the single-value check: the cell under the column's name
val_row == IF val_cell = None THEN EmptyDict
           ELSE [name \in {val_column.name} |-> val_cell]

\* _get_row_value_with_validation on the cell
GetRowValue ==
    /\ val_pc = "call"
    /\ val_result' = get_row_value_with_validation(
                         [columns |-> <<val_column>>, csv_delimiter |-> ","],
                         val_column.name, val_row)
    /\ val_pc' = "returned"
    /\ UNCHANGED <<val_column, val_cell, val_first, not_val_vars>>

\* _get_row_value_with_validation on the string form of the value a first
\* call has returned, in a row that holds it under the same column
GetRowValueAgain ==
    /\ val_pc = "returned"
    /\ val_result.err = ""
    /\ val_result.val # None
    /\ val_first' = val_result
    /\ val_cell' = PyStr(py_str(val_result.val))
    /\ val_result' = get_row_value_with_validation(
                         [columns |-> <<val_column>>, csv_delimiter |-> ","],
                         val_column.name,
                         [name \in {val_column.name} |-> PyStr(py_str(val_result.val))])
    /\ val_pc' = "returned_again"
    /\ UNCHANGED <<val_column, not_val_vars>>

\* IngestCSV._compute_parents_data on a product item with the folder path
ComputeParentsData ==
    /\ fn_pc = "call"
    /\ fn_name = "_compute_parents_data"
    /\ fn_result' = compute_parents_data(fn_args.folder_creation_config,
                                         [folder_path |-> fn_args.folder_path])
    /\ fn_pc' = "returned"
    /\ UNCHANGED <<fn_name, fn_args, not_fn_vars>>

\* The tags of RepreItem.from_csv_row (lines 153-166) for the value of the
\* Representation Tags cell of a row
ReadTags ==
    /\ fn_pc = "call"
    /\ fn_name = "RepreItem.from_csv_row"
    /\ fn_result' = repre_tags_list(fn_args.repre_config, fn_args.repre_tags)
    /\ fn_pc' = "returned"
    /\ UNCHANGED <<fn_name, fn_args, not_fn_vars>>


\* EditorialAdvancedCreator._get_timing_data on a clip whose source range
\* has been set by _restore_otio_source_range, as line 615 does before
GetTimingData ==
    /\ fn_pc = "call"
    /\ fn_name = "_get_timing_data"
    /\ fn_result' = get_timing_data(restore_otio_source_range(fn_args.otio_clip),
                                    fn_args.timeline_offset,
                                    fn_args.track_start_frame,
                                    fn_args.workfile_start_frame)
    /\ fn_pc' = "returned"
    /\ UNCHANGED <<fn_name, fn_args, not_fn_vars>>

\* csvpublish, as TrayPublishAddon._ingest_csv calls it on a file that is
\* there; create_context.create raises CreatorError or does not
CsvPublish ==
    /\ fn_pc = "call"
    /\ fn_name = "csvpublish"
    /\ \E create_error \in {"", "CreatorError"} :
          fn_result' = csvpublish(fn_args.folder_path, fn_args.task_name, create_error)
    /\ fn_pc' = "returned"
    /\ UNCHANGED <<fn_name, fn_args, not_fn_vars>>

\* Lines 584-590 of _get_clip_instances: track_start_frame of a track
TrackStartFrame ==
    /\ fn_pc = "call"
    /\ fn_name = "track_start_frame"
    /\ fn_result' = PyInt(track_start_frame_of(fn_args.track,
                                               fn_args.timeline_frame_start))
    /\ fn_pc' = "returned"
    /\ UNCHANGED <<fn_name, fn_args, not_fn_vars>>

\* Line 492: the names of the clips of the timeline
clip_names_set(clips) ==
    {clips[i].name.v : i \in {j \in 1..Len(clips) : clips[j].schema = "Clip"
                                                     /\ clips[j].name # None}}

\* The head of EditorialAdvancedCreator._get_clip_instances (lines 485-578):
\* it returns when no folder of the media folder is named as a clip, and
\* reads the content of the clip folders otherwise
GetClipInstances ==
    /\ ed_pc = "create"
    /\ IF clip_folders_of(ed_args.media, clip_names_set(ed_args.clips)) = {}
       THEN /\ ed_pc' = "no_clip_folders"
            /\ UNCHANGED <<ed_clip_content, ed_clip>>
       ELSE /\ ed_pc' = "clips"
            /\ ed_clip_content' = clip_content_of(ed_args.media,
                                                  clip_names_set(ed_args.clips),
                                                  ed_args.product_type_presets)
            /\ ed_clip' = 1
    /\ UNCHANGED <<ed_args, ed_preset, ed_parenting, ed_instances, ed_error, not_ed_vars>>

\* Lines 593-612: the clip gets instances
clip_is_processed(otio_clip, clip_content, product_type_presets, ignore_clip_no_content) ==
    /\ validate_clip_for_processing(otio_clip)
    /\ ~(/\ ignore_clip_no_content
         /\ ignored_for_no_content(product_type_presets,
                                   clip_content_get(clip_content, otio_clip.name.v)))

\* Lines 593-612: a clip that is not valid, or that is ignored for having no
\* content, is passed over
SkipClip ==
    /\ ed_pc = "clips"
    /\ ed_clip <= Len(ed_args.clips)
    /\ ~clip_is_processed(ed_args.clips[ed_clip], ed_clip_content,
                          ed_args.product_type_presets, ed_args.ignore_clip_no_content)
    /\ ed_clip' = ed_clip + 1
    /\ UNCHANGED <<ed_pc, ed_args, ed_clip_content, ed_preset, ed_parenting,
                   ed_instances, ed_error, not_ed_vars>>

\* Lines 615-633 with _make_shot_product_instance: the shot instance of the
\* clip is created and stored, parenting_data points to it
MakeShotProductInstance ==
    /\ ed_pc = "clips"
    /\ ed_clip <= Len(ed_args.clips)
    /\ clip_is_processed(ed_args.clips[ed_clip], ed_clip_content,
                         ed_args.product_type_presets, ed_args.ignore_clip_no_content)
    /\ ed_instances' =
          Append(ed_instances,
                 clip_creator_create(
                     shot_instance_data(restore_otio_source_range(ed_args.clips[ed_clip]),
                                        base_instance_data_of(ed_args.clips[ed_clip])),
                     new_instance_id(Len(ed_instances) + 1)))
    /\ ed_parenting' = parenting_data_of(ed_instances'[Len(ed_instances')])
    /\ ed_preset' = 1
    /\ ed_pc' = "presets"
    /\ UNCHANGED <<ed_args, ed_clip_content, ed_clip, ed_error, not_ed_vars>>

\* Lines 638-645 with _make_product_instance for one preset: iterating the
\* content of a clip that has none (None) raises TypeError
MakeProductInstance ==
    /\ ed_pc = "presets"
    /\ ed_preset <= Len(ed_args.product_type_presets)
    /\ IF clip_content_get(ed_clip_content, ed_args.clips[ed_clip].name.v) = None
       THEN /\ ed_pc' = "failed"
            /\ ed_error' = "TypeError"
            /\ UNCHANGED <<ed_instances, ed_preset>>
       ELSE /\ ed_instances' =
                  ed_instances \o
                  product_instances(
                      ed_args.product_type_presets[ed_preset],
                      base_instance_data_of(ed_args.clips[ed_clip]),
                      ed_parenting,
                      group_representations(
                          <<>>, ed_clip_content[ed_args.clips[ed_clip].name.v],
                          ed_args.product_type_presets[ed_preset]),
                      Len(ed_instances) + 1)
            /\ ed_preset' = ed_preset + 1
            /\ UNCHANGED <<ed_pc, ed_error>>
    /\ UNCHANGED <<ed_args, ed_clip_content, ed_clip, ed_parenting, not_ed_vars>>

\* Line 592: all presets of the clip are done, the next clip of the track
NextClip ==
    /\ ed_pc = "presets"
    /\ ed_preset > Len(ed_args.product_type_presets)
    /\ ed_clip' = ed_clip + 1
    /\ ed_pc' = "clips"
    /\ UNCHANGED <<ed_args, ed_clip_content, ed_preset, ed_parenting, ed_instances,
                   ed_error, not_ed_vars>>

\* The instance of EditorialAdvancedCreator._create_otio_instance
otio_instance(instance_id) ==
    dict_update(CreatedInstance(<<"e","d","i","t","o","r","i","a","l">>, <<"e","d","i","t","o","r","i","a","l","M","a","i","n">>,
                                [folderPath |-> ED_FOLDER_ENTITY.path,
                                 sequenceFilePath |-> <<"/","e","d","i","t","/","c","u","t",".","e","d","l">>]),
                [instance_id |-> instance_id])

\* EditorialAdvancedCreator._create_otio_instance (lines 383-412), once
\* _get_clip_instances has returned
CreateOtioInstance ==
    /\ \/ ed_pc = "no_clip_folders"
       \/ ed_pc = "clips" /\ ed_clip > Len(ed_args.clips)
    /\ ed_instances' = Append(ed_instances, otio_instance(new_instance_id(Len(ed_instances) + 1)))
    /\ ed_pc' = "done"
    /\ UNCHANGED <<ed_args, ed_clip_content, ed_clip, ed_preset, ed_parenting,
                   ed_error, not_ed_vars>>

\* HostContext._get_data(): the content of the file; a file that is not
\* there is made with an empty dict
get_data(file) == IF file = None THEN EmptyDict ELSE file.v

\* The file after HostContext._get_data has read it
file_after_get_data(file) == [k |-> "json", v |-> get_data(file)]

\* HostContext.get_instances(): _get_data("instances") or []
get_instances(file) ==
    IF "instances" \in DOMAIN get_data(file) THEN get_data(file).instances ELSE <<>>

\* HostContext.get_context_data(): _get_data("context") or {}
get_context_data(file) ==
    IF "context" \in DOMAIN get_data(file) THEN get_data(file).context ELSE ""

\* the data with nothing but the group that is saved
save_data_GroupOnly(data, group, new_data) == (group :> new_data)

\* HostContext._save_data, lines 87-89: data[group] = new_data, and what is
\* written to the file
save_data(data, group, new_data) == dict_update(data, (group :> new_data))

\* update_instances, lines 121-123: the data to store of the instance with
\* the given id, the last of the update list
updated_instances(update_list, instance_id) ==
    update_list[CHOOSE j \in DOMAIN update_list :
                    /\ update_list[j].instance_id = instance_id
                    /\ \A l \in DOMAIN update_list :
                          update_list[l].instance_id = instance_id => l <= j]

\* The keys of the new data are set and no key is removed
update_instance_data_KeepOld(instance_data, new_instance_data) ==
    dict_update(instance_data, new_instance_data)

\* update_instances, lines 128-134: the stored data is updated with the new
\* data and the keys the new data does not have are popped
update_instance_data(instance_data, new_instance_data) ==
    [key \in DOMAIN dict_update(instance_data, new_instance_data)
               \ (DOMAIN instance_data \ DOMAIN new_instance_data) |->
        dict_update(instance_data, new_instance_data)[key]]

\* update_instances: the file after the call
update_instances(file, update_list) ==
    LET stored == get_instances(file)
    IN [k |-> "json",
        v |-> save_data(
                 get_data(file), "instances",
                 [i \in DOMAIN stored |->
                     IF \E j \in DOMAIN update_list :
                           update_list[j].instance_id = stored[i].instance_id
                     THEN update_instance_data(
                              stored[i],
                              updated_instances(update_list, stored[i].instance_id))
                     ELSE stored[i]])]

\* list.pop(idx)
pop_at(list, idx) == SubSeq(list, 1, idx - 1) \o SubSeq(list, idx + 1, Len(list))

\* remove_instances, lines 146-154: the first stored entry with the id of
\* the instance is popped if there is one
without_instance(current_instances, instance) ==
    LET found == {idx \in DOMAIN current_instances :
                     current_instances[idx].instance_id = instance.instance_id}
    IN IF found = {} THEN current_instances
       ELSE pop_at(current_instances, Min(found))

RECURSIVE without_instances(_, _)
\* remove_instances, lines 145-154: the loop over the instances
without_instances(current_instances, to_remove) ==
    IF to_remove = <<>> THEN current_instances
    ELSE without_instances(without_instance(current_instances, Head(to_remove)),
                           Tail(to_remove))

\* remove_instances: the file after the call
remove_instances(file, to_remove) ==
    [k |-> "json",
     v |-> save_data(get_data(file), "instances",
                     without_instances(get_instances(file),
                                       IF "k" \in DOMAIN to_remove THEN to_remove.v
                                       ELSE <<to_remove>>))]

\* update_instances by the only caller of HostContext
UpdateInstances ==
    /\ fn_pc = "call"
    /\ fn_name = "update_instances"
    /\ fn_result' = update_instances(fn_args.file, fn_args.update_list)
    /\ fn_pc' = "returned"
    /\ UNCHANGED <<fn_name, fn_args, not_fn_vars>>

\* remove_instances by the only caller of HostContext
RemoveInstances ==
    /\ fn_pc = "call"
    /\ fn_name = "remove_instances"
    /\ fn_result' = remove_instances(fn_args.file, fn_args.instances)
    /\ fn_pc' = "returned"
    /\ UNCHANGED <<fn_name, fn_args, not_fn_vars>>

\* No other caller is between the first read and the write of a call
NoOtherCallRuns(c) == \A d \in Callers \ {c} : hc_pc[d] = "ready"

\* HostContext.add_instance, lines 92-94: get_instances() reads the file,
\* the instance is appended to the list that was read
HcAddInstance ==
    \E c \in Callers :
        /\ hc_pc[c] = "ready"
        /\ hc_todo[c] # <<>>
        /\ Head(hc_todo[c]).op = "add_instance"
        /\ hc_serialised => NoOtherCallRuns(c)
        /\ hc_new' = [hc_new EXCEPT ![c] =
                         PyList(Append(get_instances(hc_file), Head(hc_todo[c]).arg))]
        /\ hc_file' = file_after_get_data(hc_file)
        /\ hc_calls' = Append(hc_calls, Head(hc_todo[c]).arg)
        /\ hc_pc' = [hc_pc EXCEPT ![c] = "save"]
        /\ UNCHANGED <<hc_todo, hc_data, hc_serialised, not_hc_vars>>

\* HostContext._save_data, line 87: data = cls._get_data(), for the
\* save_instances of add_instance and for save_context_data
HcGetData ==
    \E c \in Callers :
        /\ \/ /\ hc_pc[c] = "save"
              /\ UNCHANGED hc_new
           \/ /\ hc_pc[c] = "ready"
              /\ hc_todo[c] # <<>>
              /\ Head(hc_todo[c]).op = "save_context_data"
              /\ hc_serialised => NoOtherCallRuns(c)
              /\ hc_new' = [hc_new EXCEPT ![c] = PyStr(Head(hc_todo[c]).arg)]
        /\ hc_data' = [hc_data EXCEPT ![c] = file_after_get_data(hc_file)]
        /\ hc_file' = file_after_get_data(hc_file)
        /\ hc_pc' = [hc_pc EXCEPT ![c] = "write"]
        /\ UNCHANGED <<hc_todo, hc_calls, hc_serialised, not_hc_vars>>

\* The group a call saves
group_of(call) == IF call.op = "add_instance" THEN "instances" ELSE "context"

\* HostContext._save_data, lines 88-90: the data that was read is written
\* back with the group replaced; the call has returned
HcSaveData ==
    \E c \in Callers :
        /\ hc_pc[c] = "write"
        /\ hc_file' = [k |-> "json",
                       v |-> save_data(hc_data[c].v, group_of(Head(hc_todo[c])),
                                       hc_new[c].v)]
        /\ hc_todo' = [hc_todo EXCEPT ![c] = Tail(hc_todo[c])]
        /\ hc_pc' = [hc_pc EXCEPT ![c] = "ready"]
        /\ hc_new' = [hc_new EXCEPT ![c] = None]
        /\ hc_data' = [hc_data EXCEPT ![c] = None]
        /\ UNCHANGED <<hc_calls, hc_serialised, not_hc_vars>>

\* ValidateFrameRange.process on one instance
ValidateFrameRange ==
    /\ fn_pc = "call"
    /\ fn_name = "ValidateFrameRange.process"
    /\ fn_result' = validate_frame_range(fn_args.data, fn_args.is_active,
                                         fn_args.skip_timelines_check)
    /\ fn_pc' = "returned"
    /\ UNCHANGED <<fn_name, fn_args, not_fn_vars>>

\* CollectVideoData.process on one instance
CollectVideoData ==
    /\ fn_pc = "call"
    /\ fn_name = "CollectVideoData.process"
    /\ fn_result' = collect_video_data(fn_args.data, fn_args.is_active, fn_args.info)
    /\ fn_pc' = "returned"
    /\ UNCHANGED <<fn_name, fn_args, not_fn_vars>>

\* families of the two collectors
PLUGIN_FAMILIES ==
    [CollectShotInstance |-> {<<"s","h","o","t">>},
     CollectClipInstance |-> {<<"p","l","a","t","e">>, <<"r","e","v","i","e","w">>, <<"a","u","d","i","o">>, <<"m","o","d","e","l">>, <<"c","a","m","e","r","a">>,
                              <<"r","e","n","d","e","r">>, <<"i","m","a","g","e">>, <<"w","o","r","k","f","i","l","e">>}]

\* The plugin is run on the instance: the instance is active and of one of
\* the families of the plugin
plugin_processes(plugin, data) ==
    data.active /\ data.productType \in PLUGIN_FAMILIES[plugin]

\* The plugin is not run on the instance of the context it has come to
PassInstance ==
    /\ pub_pc \in DOMAIN PLUGIN_FAMILIES
    /\ pub_cursor <= Len(pub_instances)
    /\ ~plugin_processes(pub_pc, pub_instances[pub_cursor])
    /\ pub_cursor' = pub_cursor + 1
    /\ UNCHANGED <<pub_pc, pub_args, pub_instances, pub_context, pub_error, not_pub_vars>>

\* CollectShotInstance.process (order CollectorOrder - 0.09) on the next
\* instance
CollectShotInstance ==
    /\ pub_pc = "CollectShotInstance"
    /\ pub_cursor <= Len(pub_instances)
    /\ plugin_processes(pub_pc, pub_instances[pub_cursor])
    /\ LET result == collect_shot_instance(pub_instances[pub_cursor], pub_context)
       IN IF result.err # ""
          THEN /\ pub_pc' = "failed"
               /\ pub_error' = result.err
               /\ UNCHANGED <<pub_cursor, pub_instances, pub_context>>
          ELSE /\ pub_instances' = [pub_instances EXCEPT ![pub_cursor] = result.val.data]
               /\ pub_context' = result.val.context
               /\ pub_cursor' = pub_cursor + 1
               /\ UNCHANGED <<pub_pc, pub_error>>
    /\ UNCHANGED <<pub_args, not_pub_vars>>

\* CollectClipInstance.process (order CollectorOrder - 0.081) on the next
\* instance
CollectClipInstance ==
    /\ pub_pc = "CollectClipInstance"
    /\ pub_cursor <= Len(pub_instances)
    /\ plugin_processes(pub_pc, pub_instances[pub_cursor])
    /\ LET result == collect_clip_instance(pub_instances[pub_cursor], pub_context)
       IN IF result.err # ""
          THEN /\ pub_pc' = "failed"
               /\ pub_error' = result.err
               /\ UNCHANGED <<pub_cursor, pub_instances>>
          ELSE /\ pub_instances' = [pub_instances EXCEPT ![pub_cursor] = result.val]
               /\ pub_cursor' = pub_cursor + 1
               /\ UNCHANGED <<pub_pc, pub_error>>
    /\ UNCHANGED <<pub_args, pub_context, not_pub_vars>>

\* The plugin has been through the instances of the context: the plugin of
\* the next order runs
NextPlugin ==
    /\ pub_pc \in DOMAIN PLUGIN_FAMILIES
    /\ pub_cursor > Len(pub_instances)
    /\ pub_pc' = IF pub_pc = "CollectShotInstance" THEN "CollectClipInstance" ELSE "done"
    /\ pub_cursor' = 1
    /\ UNCHANGED <<pub_args, pub_instances, pub_context, pub_error, not_pub_vars>>

Next ==
    \/ Create
    \/ CheckColumns
    \/ ReadRow
    \/ ResolveEntities
    \/ CheckDuplicates
    \/ CreateInstance
    \/ StoreInstance
    \/ StoreCsvInstance
    \/ GetRowValue
    \/ GetRowValueAgain
    \/ ComputeParentsData
    \/ ReadTags
    \/ GetTimingData
    \/ CsvPublish
    \/ TrackStartFrame
    \/ GetClipInstances
    \/ SkipClip
    \/ MakeShotProductInstance
    \/ MakeProductInstance
    \/ NextClip
    \/ CreateOtioInstance
    \/ HcAddInstance
    \/ HcGetData
    \/ HcSaveData
    \/ UpdateInstances
    \/ RemoveInstances
    \/ PassInstance
    \/ CollectShotInstance
    \/ CollectClipInstance
    \/ NextPlugin
    \/ ValidateFrameRange
    \/ CollectVideoData

Spec == Init /\ [][Next]_vars

SpecLong == InitLong /\ [][Next]_vars

(***************************************************************************)
(* Part 5 : the properties                                                 *)
(***************************************************************************)

\* The ingestion has ended with an exception
Failed == pc = "error"

\* C1: CSV ingestion is all-or-nothing.  Whenever the creator has ended with
\* an exception, whatever step raised it, HostContext holds no instance at
\* all; and whenever HostContext holds an instance, no exception has been
\* raised and the instance of every product item of the file has been built.
C1_AllOrNothing ==
    /\ Failed => host_instances = <<>>
    /\ host_instances # <<>> =>
          /\ error = None
          /\ pc \in {"store_instance", "store_csv_instance", "done"}
          /\ Len(instances) = Len(product_items_by_name)

\* C1 witness: a product instance has been built, the build of a later one
\* has raised, and nothing is stored
C1_Witness ==
    /\ Failed
    /\ error.err \in {"CreatorError: file extension not valid for output",
                      "CreatorError: representation not found in config"}
    /\ Len(instances) >= 1
    /\ host_instances = <<>>

\* C2: within one CSV ingestion no two stored instances have the same
\* productName for the same folderPath and task.
C2_ProductNameUnique ==
    \A i, j \in 1..Len(host_instances) :
        i # j => ~ (/\ host_instances[i].productName = host_instances[j].productName
                    /\ host_instances[i].folderPath = host_instances[j].folderPath
                    /\ host_instances[i].task = host_instances[j].task)

\* The row of line line_num of the file as csv.DictReader hands it over; the
\* header is line 1
RowAtLine(line_num) == dict_row(fieldnames, csv_rows[line_num - 1])

\* The value the schema gives a column of the row of line line_num
ValueAtLine(line_num, column_name) ==
    get_row_value_with_validation(columns_config, column_name,
                                  RowAtLine(line_num)).val

\* The rows that have been put into a product group: <<k, m>> is row m of
\* the group k of product_items_by_name
GroupedRows ==
    {km \in (1..Len(product_items_by_name)) \X (1..Len(csv_rows)) :
        km[2] <= Len(product_items_by_name[km[1]].item.repre_items)}

\* The line of the file a grouped row was read from
LineOf(km) == product_items_by_name[km[1]].item.repre_items[km[2]].line_num

\* The five values of the row of a line that name its product: folder path,
\* task name, variant, product type and version
FiveValues(line_num) ==
    [i \in 1..5 |->
        ValueAtLine(line_num, <<COL_FOLDER_PATH, COL_TASK_NAME, COL_VARIANT,
                                COL_PRODUCT_TYPE, COL_VERSION>>[i])]

\* The text that decides the group of a row: folder path, task name and the
\* variant, product type and version written one after the other without
\* spaces and in lower case, joined by "/"
GroupingText(line_num) ==
    FiveValues(line_num)[1].v \o <<"/">> \o FiveValues(line_num)[2].v \o <<"/">>
    \o lower(SelectSeq(py_str(FiveValues(line_num)[3])
                       \o py_str(FiveValues(line_num)[4])
                       \o py_str(FiveValues(line_num)[5]),
                       LAMBDA c : c # " "))

\* C3 as stated: two rows are in the same product group exactly if they
\* agree on all five of folder path, task name, variant, product type and
\* version.
C3_GroupedIffFiveAgree ==
    \A p, q \in GroupedRows :
        (p[1] = q[1]) <=> (FiveValues(LineOf(p)) = FiveValues(LineOf(q)))

\* C3 amended: two rows are in the same product group exactly if their
\* grouping texts are equal; rows that agree on all five values are always
\* in the same group, and every row read is in one group only.
C3_GroupedIffSameText ==
    \A p, q \in GroupedRows :
        /\ (p[1] = q[1]) <=> (GroupingText(LineOf(p)) = GroupingText(LineOf(q)))
        /\ FiveValues(LineOf(p)) = FiveValues(LineOf(q)) => p[1] = q[1]
        /\ LineOf(p) = LineOf(q) => p = q

\* C3 witness: two rows that differ in one of the five values have been put
\* into the same product group
C3_Witness ==
    \E p, q \in GroupedRows :
        /\ p[1] = q[1]
        /\ FiveValues(LineOf(p)) # FiveValues(LineOf(q))

\* The creator has returned or raised
Ended == pc \in {"error", "done"}

\* Every row of the file has passed validation and is in a product group
AllRowsGrouped == Cardinality(GroupedRows) = Len(csv_rows)

\* The file path of a grouped row after _resolve_repre_path
ResolvedPathOf(km) ==
    resolve_repre_path(csv_dir, ValueAtLine(LineOf(km), COL_FILE_PATH))

\* Some product group holds two rows with the same resolved file path
HasDuplicatePair ==
    \E p, q \in GroupedRows :
        p[1] = q[1] /\ p[2] < q[2] /\ ResolvedPathOf(p) = ResolvedPathOf(q)

\* The creator has raised the duplicate-file error
DuplicateError ==
    Failed /\ error.err = "CreatorError: duplicate filename in csv file"

\* The folder of every product group exists with the task of the group, or
\* is missing while folder creation is enabled
EntitiesResolvable ==
    \A k \in 1..Len(product_items_by_name) :
        LET item == product_items_by_name[k].item
        IN IF \E f \in DB_FOLDERS : f.path = item.folder_path.v
           THEN \E f \in DB_FOLDERS : \E task \in DB_TASKS :
                   /\ f.path = item.folder_path.v
                   /\ task.folderId = f.id
                   /\ task.name = item.task_name.v
           ELSE folder_creation_enabled

\* C4 as stated: once every row is grouped, the creator raises the
\* duplicate-file error exactly if some product group holds two rows with
\* the same resolved file path, whatever the other rows are, and then
\* nothing is stored.
C4_DuplicateErrorExactly ==
    Ended /\ AllRowsGrouped =>
        /\ DuplicateError <=> HasDuplicatePair
        /\ HasDuplicatePair => host_instances = <<>>

\* C4 amended: once every row is grouped, the duplicate-file error is raised
\* only if some product group holds two rows with the same resolved file
\* path; such a pair always makes the creator fail with nothing built or
\* stored, whatever the other rows are; and the error it fails with is the
\* duplicate-file error if the folders and tasks of the file are resolved.
C4_DuplicateErrorAfterResolution ==
    Ended /\ AllRowsGrouped =>
        /\ DuplicateError => HasDuplicatePair
        /\ HasDuplicatePair => Failed /\ instances = <<>> /\ host_instances = <<>>
        /\ HasDuplicatePair /\ EntitiesResolvable => DuplicateError

\* C4 witness: the duplicate-file error of a file of three rows in two
\* product groups, for two rows whose file paths are written differently
C4_Witness ==
    /\ DuplicateError
    /\ Len(csv_rows) = 3
    /\ Len(product_items_by_name) = 2
    /\ \E p, q \in GroupedRows :
          /\ p[1] = q[1] /\ p[2] < q[2]
          /\ ResolvedPathOf(p) = ResolvedPathOf(q)
          /\ ValueAtLine(LineOf(p), COL_FILE_PATH) # ValueAtLine(LineOf(q), COL_FILE_PATH)

\* The media entries of the representations prepared for an instance
MediaEntries(instance) ==
    SelectSeq(instance.prepared_data_for_repres, LAMBDA e : e.type = "media")

\* The number of distinct product groups of the rows of the file
NumberOfGroups == Cardinality({GroupingText(LineOf(p)) : p \in GroupedRows})

\* The lines of the rows of product group k
LinesOfGroup(k) ==
    {LineOf(p) : p \in {q \in GroupedRows : q[1] = k}}

\* C5 as stated: a successful ingestion of rows in N product groups has
\* emitted exactly N instances, each with one media entry per row of its
\* group; a file of one row has given exactly one instance with one
\* representation and the frame range of the row.
C5_OneInstancePerGroup ==
    pc = "done" =>
        /\ Len(host_instances) = NumberOfGroups
        /\ \A k \in 1..Len(host_instances) :
              Len(MediaEntries(host_instances[k])) = Cardinality(LinesOfGroup(k))
        /\ Len(csv_rows) = 1 =>
              /\ Len(host_instances[1].prepared_data_for_repres) = 1
              /\ host_instances[1].frameStart = ValueAtLine(2, COL_FRAME_START)
              /\ host_instances[1].frameEnd = ValueAtLine(2, COL_FRAME_END)

\* C5 amended: a successful ingestion of rows in N product groups has
\* emitted exactly N product instances, one of each group, and after them
\* the instance of the CSV file; each product instance has exactly one
\* media entry per row of its group, besides its thumbnail entries; a file
\* of one row has given exactly one product instance with one media entry
\* and the frame range of the row.
C5_OneProductInstancePerGroup ==
    pc = "done" =>
        /\ AllRowsGrouped
        /\ Len(product_items_by_name) = NumberOfGroups
        /\ Len(host_instances) = NumberOfGroups + 1
        /\ host_instances[NumberOfGroups + 1] = csv_instance
        /\ csv_instance.productType = PyStr(CSV_PRODUCT_TYPE)
        /\ \A k \in 1..NumberOfGroups :
              /\ host_instances[k].name = instance_name(product_items_by_name[k].item)
              /\ host_instances[k].productType # PyStr(CSV_PRODUCT_TYPE)
              /\ Len(MediaEntries(host_instances[k])) = Cardinality(LinesOfGroup(k))
              /\ {MediaEntries(host_instances[k])[m].line_num :
                     m \in 1..Len(MediaEntries(host_instances[k]))} = LinesOfGroup(k)
        /\ Len(csv_rows) = 1 =>
              /\ NumberOfGroups = 1
              /\ Len(MediaEntries(host_instances[1])) = 1
              /\ host_instances[1].frameStart = ValueAtLine(2, COL_FRAME_START)
              /\ host_instances[1].frameEnd = ValueAtLine(2, COL_FRAME_END)

\* C5 witness: a successful ingestion of two rows of one product group, one
\* of them with a thumbnail
C5_Witness ==
    /\ pc = "done"
    /\ NumberOfGroups = 1
    /\ Cardinality(LinesOfGroup(1)) = 2
    /\ Len(host_instances[1].prepared_data_for_repres) = 3

\* The product groups a run of the creator has after the first n rows
RECURSIVE GroupsAfter(_)
GroupsAfter(n) ==
    IF n = 0 THEN <<>>
    ELSE add_row(columns_config, representations_config, GroupsAfter(n - 1),
                 RowAtLine(n + 1), n + 1).val

\* The product groups of a run after entity resolution and path resolution
GroupsOfRun ==
    check_duplicates(
        csv_dir,
        resolve_entities(folder_creation_config, folder_creation_enabled,
                         GroupsAfter(Len(csv_rows))).val).val

\* What a run of the creator on the file stores, computed from the file,
\* the settings and the database alone
StoredByRun ==
    [k \in 1..(Len(GroupsOfRun) + 1) |->
        IF k <= Len(GroupsOfRun)
        THEN create_instance(folder_creation_config, representations_config,
                             GroupsOfRun[k].item).val
        ELSE make_csv_instance(CSV_PRODUCT_NAME, CSV_INSTANCE_DATA, csv_dir,
                               CSV_FILENAME)]

\* The line numbers of the media entries of an instance, in entry order
MediaLines(instance) ==
    [m \in 1..Len(MediaEntries(instance)) |-> MediaEntries(instance)[m].line_num]

PastResolution ==
    pc \in {"check_duplicates", "create_instance", "store_instance",
            "store_csv_instance", "done"}

\* The folder of product group k is not in the database
FolderMissing(k) ==
    \A f \in DB_FOLDERS : f.path # product_items_by_name[k].item.folder_path.v

\* The folder of product group k is in the database without a task of the
\* group's task name
TaskMissing(k) ==
    /\ ~FolderMissing(k)
    /\ \A f \in DB_FOLDERS : \A task \in DB_TASKS :
          ~ (/\ f.path = product_items_by_name[k].item.folder_path.v
             /\ task.folderId = f.id
             /\ task.name = product_items_by_name[k].item.task_name.v)

\* The errors IngestCSV._add_representation raises for a row
RepresentationErrors ==
    {"CreatorError: representation not found in config",
     "CreatorError: file extension not valid for output",
     "CreatorError: file sequence padding not found",
     "CreatorError: directory does not exist",
     "CreatorError: no collections found in directory"}

\* The instance of product group k has the data of a promised context
HasPromisedContext(k) ==
    /\ "newHierarchyIntegration" \in DOMAIN instances[k]
    /\ instances[k].newHierarchyIntegration = TRUE
    /\ instances[k].parents =
          PyList(compute_parents_data(folder_creation_config,
                                      product_items_by_name[k].item))
    /\ instances[k].folder_type \in {"Shot", "Sequence", "Folder"}
    /\ instances[k].tasks =
          << [name |-> product_items_by_name[k].item.task_name.v,
              type |-> get_task_type_from_task_name(
                           folder_creation_config,
                           product_items_by_name[k].item.task_name.v)] >>

\* C7, the failures: the creator does not get past entity resolution if
\* the folder of some product is missing while folder creation is disabled,
\* or if the folder of some product exists without the product's task.
C7_ResolutionFails ==
    PastResolution =>
        \A k \in 1..Len(product_items_by_name) :
            /\ FolderMissing(k) => folder_creation_enabled
            /\ ~TaskMissing(k)

\* C7, the marking: past entity resolution every product whose folder is
\* missing is marked as promised context, has its parents computed and
\* has no task type looked up; the others are not marked.
C7_MissingFolderIsPromised ==
    PastResolution =>
        \A k \in 1..Len(product_items_by_name) :
            LET item == product_items_by_name[k].item
            IN IF FolderMissing(k)
               THEN /\ item.has_promised_context
                    /\ item.task_type = None
                    /\ item.parents = PyList(compute_parents_data(
                                                 folder_creation_config, item))
               ELSE /\ ~item.has_promised_context
                    /\ item.task_type # None

\* C7, the instance: the instance of every product marked as promised
\* context is built with the data of a promised context, unless
\* _add_representation refuses one of its rows.
C7_PromisedInstanceIsBuilt ==
    \A k \in 1..Len(product_items_by_name) :
        product_items_by_name[k].item.has_promised_context =>
            /\ k <= Len(instances) => HasPromisedContext(k)
            /\ Failed /\ ~DuplicateError /\ Len(instances) = k - 1 =>
                  error.err \in RepresentationErrors

\* C7: entity resolution of a CSV ingestion.  The creator fails on a
\* missing folder while folder creation is disabled and on a missing task
\* of an existing folder; with folder creation enabled every product whose
\* folder is missing is marked as promised context without a task lookup,
\* and its instance gets newHierarchyIntegration, the parents, a folder
\* type and the task with its inferred type.
C7_EntityResolution ==
    /\ C7_ResolutionFails
    /\ C7_MissingFolderIsPromised
    /\ C7_PromisedInstanceIsBuilt

\* A header name without its stray whitespace: the words of the name with
\* one space between them
WithoutStrayWhitespace(name) == join(<<" ">>, split_ws(name))

\* The names of the columns the schema marks as required
RequiredColumns ==
    {DEFAULT_COLUMNS[i].name :
        i \in {j \in 1..Len(DEFAULT_COLUMNS) : DEFAULT_COLUMNS[j].required_column}}

\* Every required column is in the header of the file
HeaderHasRequiredColumns ==
    \A name \in RequiredColumns :
        \E i \in 1..Len(csv_fieldnames) :
            WithoutStrayWhitespace(csv_fieldnames[i]) = name

\* The creator has raised the error of a header without a required column
MissingColumnsError ==
    Failed /\ error.err = "CreatorError: missing required columns"

\* The creator has read all rows of the file
PastReading == pc = "resolve_entities" \/ PastResolution

\* C8: required-field enforcement.  Once the header has been read, the
\* creator has failed with the missing-columns error, before any row, exactly
\* if a required column of the schema is not among the header names taken
\* without stray whitespace; no row with an empty cell in a required column
\* is ever accepted into a product group, and the creator gets past reading
\* only with every row accepted, so that such a row makes the ingestion
\* fail; and _get_row_value_with_validation answers an empty cell of a
\* required column with the value-is-required error, never with a default.
C8_RequiredEnforced ==
    /\ fieldnames # <<>> =>
          /\ MissingColumnsError <=> ~HeaderHasRequiredColumns
          /\ MissingColumnsError => product_items_by_name = <<>> /\ host_instances = <<>>
    /\ \A p \in GroupedRows : \A name \in RequiredColumns :
          RowAtLine(LineOf(p))[name] # PyStr(<<>>)
    /\ PastReading => AllRowsGrouped
    /\ val_pc = "returned" /\ val_column.required_column /\ val_cell = PyStr(<<>>) =>
          /\ val_result.err = "CreatorError: value is required"
          /\ val_result.val = None

\* C8 witness: the second row of a file has an empty Frame Start cell and
\* the creator has failed on it with the value-is-required error
C8_Witness ==
    /\ Failed
    /\ error.err = "CreatorError: value is required"
    /\ cursor = 2
    /\ RowAtLine(3)[COL_FRAME_START] = PyStr(<<>>)
    /\ host_instances = <<>>

\* The error of a value that does not match its validation pattern
ValidationError == "CreatorError: value does not match validation regex"

\* The kind of value a column type stands for
KindOfType(column_type) ==
    CASE column_type = "number" -> "int"
      [] column_type = "decimal" -> "float"
      [] column_type = "bool" -> "bool"
      [] OTHER -> "str"

\* The value of the cell of the single-value check after the default has
\* taken the place of an empty cell and the type coercion has been done
CoercedCell == coerce_value(val_column.type, value_or_default(val_cell, val_column))

\* A failed call names the column, the string form of the value, the
\* pattern and the row, and the value does not match the pattern at its
\* start
NamesTheMismatch(result, column, row) ==
    /\ result.msg.column = column.name
    /\ result.msg.pattern = column.validation_pattern
    /\ result.msg.row_data = row
    /\ ~re_match(column.validation_pattern, result.msg.value)

\* C9: validation after coercion.  A call of _get_row_value_with_validation
\* whose value is coerced to a value other than None returns that value, of
\* the kind of the column type (int, float, bool by membership in
\* {"true", "True"}, str unchanged), exactly if the string form of the
\* coerced value matches the column's pattern at its start, and raises the
\* validation error otherwise; the error names the column, the value, the
\* pattern and the row.  In an ingestion every value of every accepted row
\* matches its pattern, and a validation error ends the ingestion at the
\* row it names with nothing built or stored.
C9_ValidatedAfterCoercion ==
    /\ val_pc = "returned" /\ val_result.err = ValidationError =>
          /\ NamesTheMismatch(val_result, val_column, val_row)
          /\ val_result.msg.value = py_str(CoercedCell.val)
    /\ val_pc = "returned" /\ val_result.err = "" /\ val_result.val # None =>
          /\ re_match(val_column.validation_pattern, py_str(val_result.val))
          /\ val_result.val.k = KindOfType(val_column.type)
    /\ ( /\ val_pc = "returned"
         /\ ~(val_column.required_column /\ val_cell = PyStr(<<>>))
         /\ CoercedCell.err = ""
         /\ CoercedCell.val # None ) =>
          /\ val_result.err \in {"", ValidationError}
          /\ val_result.err = "" <=>
                re_match(val_column.validation_pattern, py_str(CoercedCell.val))
          /\ val_result.err = "" => val_result.val = CoercedCell.val
          /\ val_column.type = "bool" =>
                CoercedCell.val = PyBool(value_or_default(val_cell, val_column)
                                         \in {PyStr(<<"t","r","u","e">>),
                                              PyStr(<<"T","r","u","e">>)})
          /\ val_column.type = "text" =>
                CoercedCell.val = value_or_default(val_cell, val_column)
    /\ \A p \in GroupedRows : \A i \in 1..Len(DEFAULT_COLUMNS) :
          ValueAtLine(LineOf(p), DEFAULT_COLUMNS[i].name) # None =>
              re_match(DEFAULT_COLUMNS[i].validation_pattern,
                       py_str(ValueAtLine(LineOf(p), DEFAULT_COLUMNS[i].name)))
    /\ Failed /\ error.err = ValidationError =>
          /\ \E i \in 1..Len(DEFAULT_COLUMNS) :
                NamesTheMismatch(error, DEFAULT_COLUMNS[i], RowAtLine(cursor + 1))
          /\ Cardinality(GroupedRows) = cursor - 1
          /\ instances = <<>>
          /\ host_instances = <<>>

\* C9 witness: the Version cell "1000" of the second row of a file does not
\* match the pattern of the column and has ended the ingestion
C9_Witness ==
    /\ Failed
    /\ error.err = ValidationError
    /\ cursor = 2
    /\ error.msg.column = COL_VERSION
    /\ error.msg.value = <<"1","0","0","0">>
    /\ Cardinality(GroupedRows) = 1

\* The configured default of a column as a value of the column type
TypedDefault(column) ==
    CASE column.type = "number" -> py_int(column.default).val
      [] column.type = "decimal" -> py_float(column.default).val
      [] column.type = "bool" ->
            PyBool(column.default \in {PyStr(<<"t","r","u","e">>),
                                       PyStr(<<"T","r","u","e">>)})
      [] OTHER -> column.default

\* A number or decimal column whose configured default is "0"
ZeroNumericDefault(column) ==
    column.type \in {"number", "decimal"} /\ column.default = PyStr(<<"0">>)

\* The product instances whose group holds the row of a line
InstancesOfLine(line_num) ==
    {n \in 1..Len(instances) :
        \E e \in Range(MediaEntries(instances[n])) : e.line_num = line_num}

\* C10: the default of an empty cell.  For an empty cell of a column that
\* is not required _get_row_value_with_validation returns None if the
\* column is a number or decimal column with the default "0", and the
\* configured default as a value of the column type otherwise.  A row with
\* an empty Version cell is grouped and built with the version None.
C10_EmptyCellGetsDefault ==
    /\ ( /\ val_pc = "returned"
         /\ ~val_column.required_column
         /\ val_cell = PyStr(<<>>) ) =>
          /\ val_result.err = ""
          /\ val_result.val = IF ZeroNumericDefault(val_column) THEN None
                               ELSE TypedDefault(val_column)
    /\ \A p \in GroupedRows :
          dict_get(RowAtLine(LineOf(p)), COL_VERSION) = PyStr(<<>>) =>
              /\ product_items_by_name[p[1]].item.version = None
              /\ \A n \in InstancesOfLine(LineOf(p)) :
                    instances[n].version = None

\* C10 witness: a file whose first row has an empty Version cell has been
\* ingested and its instance has the version None, not 0
C10_Witness ==
    /\ pc = "done"
    /\ csv_rows # <<>>
    /\ dict_get(RowAtLine(2), COL_VERSION) = PyStr(<<>>)
    /\ InstancesOfLine(2) # {}
    /\ \A n \in InstancesOfLine(2) : instances[n].version = None

\* C11: schema coercion is idempotent.  Whenever a call of
\* _get_row_value_with_validation has returned a value other than None and
\* the string form of that value has been given to a second call with the
\* same column definition, the second call returns the same value, for
\* text, number, decimal and bool columns alike.
C11_CoercionIdempotent ==
    val_pc = "returned_again" =>
        /\ val_result.err = ""
        /\ val_result.val = val_first.val

\* C11 witness: the cell "24." of a decimal column was coerced to 24.0, whose
\* string form "24.0" is not the cell, and was coerced a second time
C11_Witness ==
    /\ val_pc = "returned_again"
    /\ val_column.type = "decimal"
    /\ val_first.val = PyFloat(FALSE, 24, <<>>)
    /\ val_cell = PyStr(<<"2","4",".","0">>)
    /\ val_result.val = val_first.val

\* A call of the single method has returned
Returned(name) == fn_pc = "returned" /\ fn_name = name

\* The segments of a folder path without its leaf
AncestorNames(folder_path) ==
    Take(split(lstrip_set(folder_path, {"/"}), "/"),
         Len(split(lstrip_set(folder_path, {"/"}), "/")) - 1)

\* The path of the i-th ancestor: the first i segments, each after a "/"
AncestorPath(folder_path, i) ==
    <<"/">> \o join(<<"/">>, Take(AncestorNames(folder_path), i))

\* A folder type is the answer of the rules for a name: that of a rule that
\* matches the name while no rule declared before it does, or the default
\* type if no rule matches
AnswerOfRules(config, name, folder_type) ==
    \/ \E i \in 1..Len(config.folder_type_regexes) :
          /\ re_match(config.folder_type_regexes[i].regex, name)
          /\ \A j \in 1..(i - 1) : ~re_match(config.folder_type_regexes[j].regex, name)
          /\ folder_type = config.folder_type_regexes[i].folder_type
    \/ /\ \A i \in 1..Len(config.folder_type_regexes) :
             ~re_match(config.folder_type_regexes[i].regex, name)
       /\ folder_type = config.folder_create_type

C13_TagsNormalised ==
    Returned("RepreItem.from_csv_row") =>
        fn_result =
            IF fn_args.repre_tags = PyStr(<<>>)
            THEN fn_args.repre_config.default_tags
            ELSE [i \in 1..Len(split(fn_args.repre_tags.v,
                                     fn_args.repre_config.tags_delimiter)) |->
                     lower(strip(split(fn_args.repre_tags.v,
                                       fn_args.repre_config.tags_delimiter)[i]))]

\* The editorial creator has come to an end
EdEnded == ed_pc \in {"done", "failed"}

\* The stored shot instances
ShotInstances ==
    SelectSeq(ed_instances, LAMBDA inst : inst.productType = <<"s","h","o","t">>)

\* The clips of the track that are valid and are not without content while
\* ignore_clip_no_content is set
ClipsWithShot ==
    {i \in 1..Len(ed_args.clips) :
        /\ validate_clip_for_processing(ed_args.clips[i])
        /\ ~(/\ ed_args.ignore_clip_no_content
             /\ ignored_for_no_content(
                    ed_args.product_type_presets,
                    clip_content_get(clip_content_of(ed_args.media,
                                                     clip_names_set(ed_args.clips),
                                                     ed_args.product_type_presets),
                                     ed_args.clips[i].name.v)))}

\* C14: a run of the editorial creator ends without error when
\* ignore_clip_no_content is unset, and when it has ended there is one shot
\* instance for each clip that is valid and is not a clip without content
\* under a set ignore_clip_no_content, and for no other clip
C14_ShotIffValidAndNotIgnored ==
    /\ ed_pc = "failed" => ed_args.ignore_clip_no_content
    /\ ed_pc = "done" => Len(ShotInstances) = Cardinality(ClipsWithShot)

\* The stored instance is a product instance of a clip
IsProductInstance(inst) == "parent_instance_id" \in DOMAIN inst

IsShotInstance(inst) == inst.productType = <<"s","h","o","t">>

\* C15: every stored product instance comes after the shot instance of its
\* clip, which is the last shot instance stored before it; its
\* parent_instance_id is the instance id of that shot instance and its
\* creator attribute parent_instance is the label of that shot instance
C15_ProductLinkedToShot ==
    \A j \in 1..Len(ed_instances) :
        IsProductInstance(ed_instances[j]) =>
            \E i \in 1..(j - 1) :
                /\ IsShotInstance(ed_instances[i])
                /\ \A k \in (i + 1)..(j - 1) : ~IsShotInstance(ed_instances[k])
                /\ ed_instances[i].shotName = ed_instances[j].shotName
                /\ ed_instances[j].parent_instance_id = ed_instances[i].instance_id
                /\ ed_instances[j].creator_attributes.parent_instance
                      = PyStr(ed_instances[i].label)
                /\ \A k \in 1..Len(ed_instances) :
                      ed_instances[k].instance_id = ed_instances[i].instance_id => k = i

\* C15 happens: the run has ended with the shot instances of two clips, each
\* followed by a product instance of its clip
C15_Witness ==
    /\ ed_pc = "done"
    /\ Len(ShotInstances) = 2
    /\ \E j \in 1..Len(ed_instances) :
          /\ IsProductInstance(ed_instances[j])
          /\ ed_instances[j].parent_instance_id = ed_instances[1].instance_id
    /\ \E j \in 1..Len(ed_instances) :
          /\ IsProductInstance(ed_instances[j])
          /\ ed_instances[j].parent_instance_id # ed_instances[1].instance_id

\* C16: _get_timing_data on a clip with its timeline range restored gives
\* clipIn = start in parent + track start + timeline offset, clipOut = last
\* frame in parent + track start + timeline offset, clipDuration and
\* sourceIn from the trimmed range, sourceOut = sourceIn + clipDuration,
\* frameStart = the workfile start frame if set and clipIn if not, and
\* frameEnd = frameStart + clipDuration - 1
C16_TimingArithmetic ==
    Returned("_get_timing_data") =>
        /\ fn_result.clipIn = fn_args.otio_clip.range_in_parent.start_time
                                + fn_args.track_start_frame + fn_args.timeline_offset
        /\ fn_result.clipOut = fn_args.otio_clip.range_in_parent.start_time
                                 + fn_args.otio_clip.range_in_parent.duration - 1
                                 + fn_args.track_start_frame + fn_args.timeline_offset
        /\ fn_result.clipDuration = fn_args.otio_clip.range_in_parent.duration
        /\ fn_result.sourceIn = fn_args.otio_clip.range_in_parent.start_time
        /\ fn_result.sourceOut = fn_result.sourceIn + fn_result.clipDuration
        /\ fn_args.workfile_start_frame # None
              => fn_result.frameStart = fn_args.workfile_start_frame.v
        /\ fn_args.workfile_start_frame = None
              => fn_result.frameStart = fn_result.clipIn
        /\ fn_result.frameEnd = fn_result.frameStart + fn_result.clipDuration - 1

\* C16 happens: the clip of the example (frames 100 to 149 of the track, no
\* offsets, workfile start frame 1001) has got its timing data
C16_Witness ==
    /\ Returned("_get_timing_data")
    /\ fn_args.otio_clip.range_in_parent = [start_time |-> 100, duration |-> 50]
    /\ fn_args.track_start_frame = 0
    /\ fn_args.timeline_offset = 0
    /\ fn_args.workfile_start_frame = PyInt(1001)
    /\ fn_result = [frameStart |-> 1001, frameEnd |-> 1050, clipIn |-> 100,
                    clipOut |-> 149, clipDuration |-> 50, sourceIn |-> 100,
                    sourceOut |-> 150]

ProductInstances == SelectSeq(ed_instances, IsProductInstance)

\* The file names of a representation: its one file or the files of its list
FilesOf(representation) ==
    IF representation.files.k = "str" THEN {representation.files.v}
    ELSE Range(representation.files.v)

\* The version numbers in the file names of all representations of a stored
\* product instance
VersionsInFilesOf(inst) ==
    {version_in_file(file).v :
        file \in {f \in UNION {FilesOf(inst.prep_representations[r]) :
                                  r \in 1..Len(inst.prep_representations)} :
                     version_in_file(f) # None}}

\* The version the preset asks for
VersionAsked(preset, inst) ==
    CASE preset.versioning_type = "incremental" -> None
      [] preset.versioning_type = "locked" -> PyInt(preset.locked)
      [] preset.versioning_type = "from_file" ->
            IF VersionsInFilesOf(inst) = {} THEN None
            ELSE PyInt(Max(VersionsInFilesOf(inst)))

\* C18: the version of a stored product instance is None under incremental
\* versioning, the locked number under locked versioning, and under
\* from_file the greatest version number in the names of the files of all
\* its representations, None if no name holds one, whether a representation
\* has one file or several
C18_VersionResolved ==
    \A j \in 1..Len(ProductInstances) :
        \A p \in 1..Len(ed_args.product_type_presets) :
            ed_args.product_type_presets[p].product_type = ProductInstances[j].productType
                => ProductInstances[j].version
                      = VersionAsked(ed_args.product_type_presets[p], ProductInstances[j])

\* C19: every stored product instance has a representation whose content
\* type is not thumbnail
C19_NotOnlyThumbnails ==
    \A j \in 1..Len(ProductInstances) :
        \E r \in 1..Len(ProductInstances[j].prep_representations) :
            ProductInstances[j].prep_representations[r].content_type # "thumbnail"

\* C20: a failure of the product instances of one clip and preset does not
\* end the run: no run ends as failed, and a run that has ended has the
\* shot instance of every clip that gets one
C20_FailureConfined ==
    /\ ed_pc # "failed"
    /\ EdEnded /\ clip_folders_of(ed_args.media, clip_names_set(ed_args.clips)) # {}
          => Len(ShotInstances) = Cardinality(ClipsWithShot)

\* The product types whose instances get no add_review_family
NO_REVIEW_PRODUCT_TYPES ==
    {<<"m","o","d","e","l">>, <<"w","o","r","k","f","i","l","e">>,
     <<"c","a","m","e","r","a">>}

\* A representation of the instance comes from a rule with the review tag
HasReviewRepresentation(inst) ==
    \E r \in 1..Len(inst.prep_representations) :
        <<"r","e","v","i","e","w">> \in Range(inst.prep_representations[r].tags)

C22_RepresentationNamesDiffer ==
    \A j \in 1..Len(ProductInstances) :
        \A a, b \in 1..Len(ProductInstances[j].prep_representations) :
            ProductInstances[j].prep_representations[a].name
                  = ProductInstances[j].prep_representations[b].name
               => a = b

\* C23: csvpublish called with a folder path that is no folder of the
\* project, or with a task name that is no task of the folder, ends with an
\* error, and neither create_context.create nor the publishing has run
C23_UnresolvedContextFails ==
    (/\ Returned("csvpublish")
     /\ \/ fn_result.folder_entity = None
        \/ fn_args.task_name # None /\ fn_result.task_entity = None)
        => /\ fn_result.err # ""
           /\ ~fn_result.create_called
           /\ ~fn_result.published

\* No call of HostContext is between its first read and its write
AllCallsReturned == \A c \in Callers : hc_pc[c] = "ready"

\* The caller writes the file in this step, for a call that saves the group
SavesGroup(c, group) ==
    /\ hc_pc[c] = "write"
    /\ hc_pc'[c] = "ready"
    /\ group_of(Head(hc_todo[c])) = group

\* C24: while the callers keep the single-writer discipline, get_instances()
\* gives, whenever no call is running, the instances of all add_instance
\* calls in call order; a call that saves the context group leaves the
\* instances group as it is, and a call that saves the instances group
\* leaves the context group as it is
C24_SingleWriterKeepsAll ==
    /\ [](hc_serialised /\ AllCallsReturned => get_instances(hc_file) = hc_calls)
    /\ [][hc_serialised =>
             \A c \in Callers :
                 /\ SavesGroup(c, "context")
                       => get_instances(hc_file') = get_instances(hc_file)
                 /\ SavesGroup(c, "instances")
                       => get_context_data(hc_file') = get_context_data(hc_file)]_vars

\* C24 happens: under the discipline both callers have added an instance and
\* a context was saved between the two, and all calls have returned
C24_Witness ==
    /\ hc_serialised
    /\ AllCallsReturned
    /\ \A c \in Callers : hc_todo[c] = <<>>
    /\ get_instances(hc_file) = <<"a", "b">>
    /\ hc_calls = <<"a", "b">>
    /\ get_context_data(hc_file) = "x"

\* The ids of the instances remove_instances is given
GivenIds ==
    IF "k" \in DOMAIN fn_args.instances
    THEN {inst.instance_id : inst \in Range(fn_args.instances.v)}
    ELSE {fn_args.instances.instance_id}

\* C26: update_instances replaces the stored data of the stored instances
\* whose id is in the update list by the new data, adds no instance and
\* leaves the other instances and the order as they are; remove_instances
\* takes out the stored entries whose id is given and leaves the others as
\* they are and in their order
C26_UpdateAndRemove ==
    /\ Returned("update_instances") =>
          LET old == get_instances(fn_args.file)
              new == get_instances(fn_result)
          IN /\ Len(new) = Len(old)
             /\ \A i \in DOMAIN old :
                   IF \E j \in DOMAIN fn_args.update_list :
                         fn_args.update_list[j].instance_id = old[i].instance_id
                   THEN \E j \in DOMAIN fn_args.update_list :
                           /\ fn_args.update_list[j].instance_id = old[i].instance_id
                           /\ new[i] = fn_args.update_list[j]
                   ELSE new[i] = old[i]
    /\ Returned("remove_instances") =>
          get_instances(fn_result)
              = SelectSeq(get_instances(fn_args.file),
                          LAMBDA stored : stored.instance_id \notin GivenIds)

\* An instance with a task is updated by data without a task while another
\* stored instance is not in the update list, which names an instance that
\* is not stored
C26_Witness ==
    /\ Returned("update_instances")
    /\ Len(get_instances(fn_args.file)) = 2
    /\ "task" \in DOMAIN get_instances(fn_args.file)[1]
    /\ "task" \notin DOMAIN get_instances(fn_result)[1]
    /\ get_instances(fn_result)[1] # get_instances(fn_args.file)[1]
    /\ \E j \in DOMAIN fn_args.update_list :
          \A i \in DOMAIN get_instances(fn_args.file) :
              get_instances(fn_args.file)[i].instance_id
                  # fn_args.update_list[j].instance_id

\* The instances of the publish context CollectClipInstance has made
\* representations for
WithRepresentations ==
    {i \in DOMAIN pub_instances : "representations" \in DOMAIN pub_instances[i]}

\* C25: when CollectClipInstance.process has made the representations of an
\* instance of the editorial creator, the files of each of them are one
\* whole name of a matched file if its content type is not image_sequence,
\* and the list of all matched files if it is
C25_FilesAsMatched ==
    \A i \in WithRepresentations :
        \A r \in DOMAIN pub_instances[i].representations :
            LET repre == pub_args.instances[i].prep_representations[r]
                files == pub_instances[i].representations[r].files
            IN IF repre.content_type # "image_sequence"
               THEN files.k = "str" /\ files.v \in FilesOf(repre)
               ELSE files.k = "list" /\ Range(files.v) = FilesOf(repre)

\* C27: when CollectClipInstance.process comes to an instance of an editorial
\* product creator, editorialSharedData of the context has an entry for the
\* parent_instance_id of the instance, whatever instances the context holds
\* and whichever of them are active; the call does not end in KeyError
C27_SharedDataIsThere ==
    /\ (/\ pub_pc = "CollectClipInstance"
        /\ pub_cursor <= Len(pub_instances)
        /\ plugin_processes(pub_pc, pub_instances[pub_cursor])
        /\ pub_instances[pub_cursor].creator_identifier \in CLIP_CREATOR_IDENTIFIERS)
       => /\ "editorialSharedData" \in DOMAIN pub_context
          /\ pub_instances[pub_cursor].parent_instance_id
                \in DOMAIN pub_context.editorialSharedData
    /\ pub_error # "KeyError"

RECURSIVE entry_under(_, _, _)
\* The entry of a folder name under a chain of parents in a hierarchy, None
\* if a folder of the chain or the name is not there
entry_under(hierarchy, parents, folder_name) ==
    IF parents = <<>>
    THEN IF folder_name \in DOMAIN hierarchy THEN hierarchy[folder_name] ELSE None
    ELSE IF Head(parents).entity_name \notin DOMAIN hierarchy THEN None
    ELSE entry_under(hierarchy[Head(parents).entity_name].v.children.v,
                     Tail(parents), folder_name)

\* The shot instances CollectShotInstance has processed
ProcessedShots ==
    {i \in DOMAIN pub_instances :
        /\ plugin_processes("CollectShotInstance", pub_instances[i])
        /\ \/ pub_pc \in {"CollectClipInstance", "done"}
           \/ pub_pc = "CollectShotInstance" /\ i < pub_cursor}

\* C28: hierarchyContext holds, for every shot CollectShotInstance has
\* processed, the entry of the folder of the shot under the chain of its
\* parents, with the attributes of that shot
C28_HierarchyOfEveryShot ==
    \A i \in ProcessedShots :
        entry_under(pub_context.hierarchyContext, pub_instances[i].parents,
                    after_last(pub_instances[i].folderPath, <<"/">>))
            = in_info_of(pub_instances[i])

\* C29: ValidateFrameRange.process raises its validation error only if the
\* instance is active, is not one of a new hierarchy, has a task that matches
\* no pattern of skip_timelines_check, has representations of which the
\* first has an extension that is checked, and the number of files of that
\* representation differs from the duration of the task or folder entity
C29_ValidationErrorOnlyIf ==
    (Returned("ValidateFrameRange.process")
     /\ fn_result.err = "PublishXmlValidationError") =>
        /\ fn_args.is_active
        /\ ~truthy(data_get(fn_args.data, "newHierarchyIntegration"))
        /\ ~truthy(data_get(fn_args.data, "newAssetPublishing"))
        /\ \A i \in DOMAIN fn_args.skip_timelines_check :
              ~re_search(fn_args.skip_timelines_check[i], fn_args.data.task.v)
        /\ truthy(data_get(fn_args.data, "representations"))
        /\ lower(replace(fn_args.data.representations.v[1].ext, <<".">>, <<>>))
              \in check_extensions
        /\ frames_of(fn_args.data.representations.v[1]) # entity_duration(fn_args.data)

\* The first representation of the instance is a single video file
SingleVideoFile ==
    /\ "representations" \in DOMAIN fn_args.data
    /\ "ext" \in DOMAIN fn_args.data.representations.v[1]
    /\ <<".">> \o fn_args.data.representations.v[1].ext \in VIDEO_EXTENSIONS
    /\ \/ fn_args.data.representations.v[1].files.k = "str"
       \/ Len(fn_args.data.representations.v[1].files.v) = 1

\* C30: for an instance whose first representation is a single video file,
\* CollectVideoData sets frameStart to the frame of the timecode of the
\* video (0 without a timecode), frameEnd so that frameStart..frameEnd holds
\* nb_frames frames, and both handles to 0
C30_RangeCoversVideo ==
    (Returned("CollectVideoData.process") /\ fn_args.is_active /\ SingleVideoFile) =>
        /\ fn_result.err = ""
        /\ fn_result.val.frameStart
              = (IF "timecode" \in DOMAIN fn_args.info
                 THEN timecode_to_frame(
                          fn_args.info.timecode.v,
                          IF "framerate" \in DOMAIN fn_args.info
                          THEN fn_args.info.framerate.v.ip ELSE 25).val
                 ELSE 0)
        /\ fn_result.val.frameEnd - fn_result.val.frameStart + 1
              = (IF "nb_frames" \in DOMAIN fn_args.info
                 THEN py_int(fn_args.info.nb_frames).val.v ELSE 0)
        /\ fn_result.val.handleStart = 0
        /\ fn_result.val.handleEnd = 0

====
